---------------------------- MODULE Spec2Model ----------------------------
(***************************************************************************)
(* A model of the credential and session core of warrior-poets:            *)
(*   encryption.py    AES-CBC encryption at rest of the Kalshi credentials *)
(*   database.py      users / sessions / kalshi_credentials tables         *)
(*   wagers_server.py request guards, OAuth callback, logout, link, trade  *)
(*   kalshi_api.py    the signing client                                   *)
(*                                                                         *)
(* Scaling.  Bytes are 2 bits wide (0..3) instead of 8, the cipher block   *)
(* is BlockSize bytes instead of 16, text is written over the three        *)
(* characters of Chars.  Tables are sequences of rows in insertion order,  *)
(* so that two equal rows stay two rows.  Time is counted in days.         *)
(***************************************************************************)
EXTENDS Integers, Sequences, FiniteSets, TLC

VARIABLES
    ENCRYPTION_KEY,      \* encryption.py:13  module constant read from the environment
    env,                 \* kalshi_api.py:24-37  the environment of the trading client
    users,               \* database.py:64    table users
    sessions,            \* database.py:94    table sessions
    kalshi_credentials,  \* database.py:79    table kalshi_credentials (committed rows)
    now,                 \* datetime.utcnow(), in days (yahoo_fantasy.py: datetime.now(), in minutes)
    resp,                \* what the last operation returned to its caller
    stored,              \* history: the plaintext pair last stored for each user
    issued,              \* history: for each token, the create call that issued it
    resolved,            \* history: for each subject id, the user id its first resolve returned
    txn,                 \* the open database transactions of the concurrent requests
    api,                 \* kalshi_api.py: the KalshiAPI object under test
    wire,                \* the HTTP requests that left for the trading API
    yahoo,               \* yahoo_fantasy.py:138  the token fields of the YahooFantasyAPI object
    threads              \* yahoo_fantasy.py:278  the _api_request calls under way on that object

vars == <<ENCRYPTION_KEY, env, users, sessions, kalshi_credentials, now,
          resp, stored, issued, resolved, txn, api, wire, yahoo, threads>>

-----------------------------------------------------------------------------
(* Bounds of the model *)

MaxUsers == 2
BlockSize == 2
NumProcs == 2
MaxClock == 45
MaxText == 3

(* Program constants *)

\* database.py:139  expires_days: int = 30
DefaultExpiresDays == 30

\* yahoo_fantasy.py:176  timedelta(minutes=5)
SafetyMargin == 5

(* Python values *)

None == [kind |-> "None"]
Value(v) == [kind |-> "value", val |-> v]
Raise(e) == [kind |-> "raise", exc |-> e]
IsRaise(r) == r.kind = "raise"
\* Python truth of an optional text: None and the empty text are false
Truthy(opt) == opt.kind = "value" /\ opt.val # <<>>

-----------------------------------------------------------------------------
(* Bytes, text and the encodings of encryption.py *)

Byte == 0..3
Chars == <<"a", "b", "c">>

Xor(a, b) == (((a % 2) + (b % 2)) % 2) + 2 * (((a \div 2) + (b \div 2)) % 2)
XorBlock(x, y) == [i \in 1..Len(x) |-> Xor(x[i], y[i])]

Ord(c) == (CHOOSE i \in 1..Len(Chars) : Chars[i] = c) - 1

\* str.encode('utf-8'): one byte per character of Chars
utf8_encode(s) == [i \in 1..Len(s) |-> Ord(s[i])]

\* bytes.decode('utf-8'): a byte outside the code range cannot be decoded
utf8_decode(bs) ==
    IF \E i \in 1..Len(bs) : bs[i] + 1 > Len(Chars)
    THEN Raise("UnicodeDecodeError")
    ELSE Value([i \in 1..Len(bs) |-> Chars[bs[i] + 1]])

B64Alphabet == <<"A", "B", "C", "D">>
b64encode(bs) == [i \in 1..Len(bs) |-> B64Alphabet[bs[i] + 1]]
b64decode(s) ==
    [i \in 1..Len(s) |-> (CHOOSE n \in 1..Len(B64Alphabet) : B64Alphabet[n] = s[i]) - 1]

\* Crypto.Util.Padding.pad: PKCS#7
MutPadToBoundary(data, bs) ==
    LET n == (bs - (Len(data) % bs)) % bs
    IN  data \o [i \in 1..n |-> n]
pad(data, bs) ==
    LET n == bs - (Len(data) % bs)
    IN  data \o [i \in 1..n |-> n]

\* Crypto.Util.Padding.unpad: PKCS#7, ValueError on a wrong padding
unpad(padded, bs) ==
    LET len == Len(padded)
        n == IF len = 0 THEN 0 ELSE padded[len]
    IN  IF len = 0 \/ len % bs # 0 THEN Raise("ValueError")
        ELSE IF n < 1 \/ n > bs THEN Raise("ValueError")
        ELSE IF \E i \in (len - n + 1)..len : padded[i] # n THEN Raise("ValueError")
        ELSE Value(SubSeq(padded, 1, len - n))

\* The block cipher under a key: a keyed permutation of the blocks and its inverse
KeyShift(key) == IF key = "k1" THEN 1 ELSE 3
Sbox == <<2, 0, 3, 1>>
EncByte(key, b) == Sbox[((b + KeyShift(key)) % 4) + 1]
DecByte(key, c) == CHOOSE b \in Byte : EncByte(key, b) = c
EncBlock(key, blk) == [i \in 1..Len(blk) |-> EncByte(key, blk[i])]
DecBlock(key, blk) == [i \in 1..Len(blk) |-> DecByte(key, blk[i])]

Block(data, k) == SubSeq(data, (k - 1) * BlockSize + 1, k * BlockSize)

\* AES.new(key, AES.MODE_CBC, iv).encrypt: c[k] = E(p[k] xor c[k-1]), c[0] = iv
RECURSIVE cbc_encrypt(_, _, _)
cbc_encrypt(key, prev, data) ==
    IF Len(data) = 0 THEN <<>>
    ELSE LET c == EncBlock(key, XorBlock(Block(data, 1), prev))
         IN  c \o cbc_encrypt(key, c, SubSeq(data, BlockSize + 1, Len(data)))

\* AES.new(key, AES.MODE_CBC, iv).decrypt: p[k] = D(c[k]) xor c[k-1], c[0] = iv
RECURSIVE cbc_decrypt(_, _, _)
cbc_decrypt(key, prev, data) ==
    IF Len(data) = 0 THEN <<>>
    ELSE LET c == Block(data, 1)
         IN  XorBlock(DecBlock(key, c), prev)
                 \o cbc_decrypt(key, c, SubSeq(data, BlockSize + 1, Len(data)))

\* encryption.py:16  get_encryption_key
get_encryption_key(env_key) ==
    IF env_key = "" THEN Raise("ValueError") ELSE Value(env_key)

\* encryption.py:23  encrypt_credential(plaintext), iv = os.urandom(16) drawn by the caller
encrypt_credential(env_key, plaintext, iv) ==
    LET key == get_encryption_key(env_key)
    IN  IF IsRaise(key) THEN key
        ELSE Value(<<b64encode(cbc_encrypt(key.val, iv,
                                           pad(utf8_encode(plaintext), BlockSize))),
                     b64encode(iv)>>)

\* encryption.py:45  decrypt_credential(ciphertext_b64, iv_b64)
decrypt_credential(env_key, ciphertext_b64, iv_b64) ==
    LET key == get_encryption_key(env_key)
    IN  IF IsRaise(key) THEN key
        ELSE LET plain == unpad(cbc_decrypt(key.val, b64decode(iv_b64),
                                            b64decode(ciphertext_b64)), BlockSize)
             IN  IF IsRaise(plain) THEN plain ELSE utf8_decode(plain.val)

-----------------------------------------------------------------------------
(* database.py: the tables.  A table is the sequence of its committed rows. *)

UserIds == 1..MaxUsers

Rows(table) == {table[i] : i \in 1..Len(table)}

\* a serial primary key: a key no row of the table holds
FreshId(table, taken) ==
    CHOOSE n \in 1..(Len(table) + Cardinality(taken) + 1) :
        /\ n \notin taken
        /\ \A i \in 1..Len(table) : table[i].id # n

\* database.py:84, :99  ForeignKey('users.id'): the referenced user exists
UserExists(utable, user_id) == \E i \in 1..Len(utable) : utable[i].id = user_id

\* database.py:178  save_kalshi_credentials(user_id, api_key, private_key);
\* iv1 and iv2 are the two os.urandom(16) draws of its two encrypt_credential calls.
\* Returns the outcome and the table after the transaction.
save_kalshi_credentials(env_key, utable, table, user_id, api_key, private_key, iv1, iv2) ==
    LET e1 == encrypt_credential(env_key, api_key, iv1)
        e2 == encrypt_credential(env_key, private_key, iv2)
        kept == SelectSeq(table, LAMBDA r : r.user_id # user_id)
        creds == [id |-> FreshId(table, {}),
                  user_id |-> user_id,
                  encrypted_api_key |-> e1.val[1],
                  encrypted_private_key |-> e2.val[1],
                  encryption_iv |-> e1.val[2]]
    IN  IF IsRaise(e1) THEN [result |-> e1, table |-> table]
        ELSE IF IsRaise(e2) THEN [result |-> e2, table |-> table]
        ELSE IF ~UserExists(utable, user_id)
             THEN [result |-> Raise("IntegrityError"), table |-> table]
        ELSE [result |-> None, table |-> Append(kept, creds)]

\* database.py:199  get_kalshi_credentials(user_id)
get_kalshi_credentials(env_key, table, user_id) ==
    LET found == SelectSeq(table, LAMBDA r : r.user_id = user_id)
        creds == found[1]
        api_key == decrypt_credential(env_key, creds.encrypted_api_key, creds.encryption_iv)
        private_key == decrypt_credential(env_key, creds.encrypted_private_key,
                                          creds.encryption_iv)
    IN  IF Len(found) = 0 THEN None
        ELSE IF IsRaise(api_key) THEN api_key
        ELSE IF IsRaise(private_key) THEN private_key
        ELSE Value(<<api_key.val, private_key.val>>)

\* database.py:214  delete_kalshi_credentials(user_id)
delete_kalshi_credentials(table, user_id) ==
    SelectSeq(table, LAMBDA r : r.user_id # user_id)

\* database.py:221  user_has_kalshi_credentials(user_id)
user_has_kalshi_credentials(table, user_id) ==
    Len(SelectSeq(table, LAMBDA r : r.user_id = user_id)) > 0

-----------------------------------------------------------------------------
(* database.py: users *)

\* database.py:113  get_or_create_user(yahoo_guid, yahoo_email, yahoo_name).
\* yahoo_guid is NOT NULL (:69): inserting None is an IntegrityError.
MutAlwaysCreate(utable, yahoo_guid, yahoo_email, yahoo_name) ==
    [result |-> Value([id |-> FreshId(utable, {}), yahoo_guid |-> yahoo_guid.val,
                       yahoo_email |-> yahoo_email, yahoo_name |-> yahoo_name]),
     table |-> Append(utable, [id |-> FreshId(utable, {}), yahoo_guid |-> yahoo_guid.val,
                               yahoo_email |-> yahoo_email, yahoo_name |-> yahoo_name])]
get_or_create_user(utable, yahoo_guid, yahoo_email, yahoo_name) ==
    LET at == {i \in 1..Len(utable) :
                  yahoo_guid # None /\ utable[i].yahoo_guid = yahoo_guid.val}
        i == CHOOSE x \in at : \A y \in at : x <= y
        updated == [utable[i] EXCEPT
                       !.yahoo_email = IF Truthy(yahoo_email) THEN yahoo_email ELSE @,
                       !.yahoo_name = IF Truthy(yahoo_name) THEN yahoo_name ELSE @]
        user == [id |-> FreshId(utable, {}), yahoo_guid |-> yahoo_guid.val,
                 yahoo_email |-> yahoo_email, yahoo_name |-> yahoo_name]
    IN  IF at # {}
        THEN [result |-> Value(updated), table |-> [utable EXCEPT ![i] = updated]]
        ELSE IF yahoo_guid = None
        THEN [result |-> Raise("IntegrityError"), table |-> utable]
        ELSE [result |-> Value(user), table |-> Append(utable, user)]

-----------------------------------------------------------------------------
(* database.py: sessions *)

\* database.py:139  create_session(user_id, expires_days); token is the draw of
\* secrets.token_urlsafe(32).  The INSERT fails on the foreign key (:99) and on
\* the unique session_token (:100).
create_session(utable, table, clock, user_id, expires_days, token) ==
    LET expires_at == clock + expires_days
        session == [user_id |-> user_id, session_token |-> token,
                    expires_at |-> expires_at]
    IN  IF ~UserExists(utable, user_id)
        THEN [result |-> Raise("IntegrityError"), table |-> table]
        ELSE IF \E i \in 1..Len(table) : table[i].session_token = token
        THEN [result |-> Raise("IntegrityError"), table |-> table]
        ELSE [result |-> Value(token), table |-> Append(table, session)]

\* database.py:156  get_user_by_session(session_token)
MutValidAtExpiry(utable, table, clock, session_token) ==
    LET found == SelectSeq(table, LAMBDA r : r.session_token = session_token
                                             /\ r.expires_at >= clock)
        user == SelectSeq(utable, LAMBDA r : r.id = found[1].user_id)
    IN  IF Len(found) = 0 THEN None
        ELSE IF Len(user) = 0 THEN None
        ELSE user[1]
MutIgnoreExpiry(utable, table, clock, session_token) ==
    LET found == SelectSeq(table, LAMBDA r : r.session_token = session_token)
        user == SelectSeq(utable, LAMBDA r : r.id = found[1].user_id)
    IN  IF Len(found) = 0 THEN None
        ELSE IF Len(user) = 0 THEN None
        ELSE user[1]
get_user_by_session(utable, table, clock, session_token) ==
    LET found == SelectSeq(table, LAMBDA r : r.session_token = session_token
                                             /\ r.expires_at > clock)
        user == SelectSeq(utable, LAMBDA r : r.id = found[1].user_id)
    IN  IF Len(found) = 0 THEN None
        ELSE IF Len(user) = 0 THEN None
        ELSE user[1]

\* database.py:171  delete_session(session_token)
MutDeleteUnfiltered(table, session_token) == <<>>
MutDeleteOfSameUser(table, session_token) ==
    SelectSeq(table, LAMBDA r : ~\E i \in 1..Len(table) :
                                    /\ table[i].session_token = session_token
                                    /\ table[i].user_id = r.user_id)
delete_session(table, session_token) ==
    SelectSeq(table, LAMBDA r : r.session_token # session_token)

\* database.py:230  cleanup_expired_sessions()
MutSweepAtExpiry(table, clock) ==
    SelectSeq(table, LAMBDA r : ~(r.expires_at <= clock))
cleanup_expired_sessions(table, clock) ==
    SelectSeq(table, LAMBDA r : ~(r.expires_at < clock))

-----------------------------------------------------------------------------
(* kalshi_api.py: the signing client.  Text is a sequence of chunks; the   *)
(* chunk "?" is the query separator of a path.                             *)

KeyPaths == {"key.pem"}

\* kalshi_api.py:66  _load_private_key: the key object read from the file, None
\* when the file is missing, ValueError when its content is no PEM key
load_private_key(e, path) ==
    IF path \notin DOMAIN e.files THEN None
    ELSE IF e.files[path] = "garbage" THEN Raise("ValueError")
    ELSE Value([pem |-> e.files[path]])

\* kalshi_api.py:48  the parameters __init__ accepts
InitParams == {"use_demo", "api_key_id", "private_key_path"}

\* kalshi_api.py:48  KalshiAPI(**kwargs): the arguments are bound to the
\* parameters (an unknown keyword is a TypeError), then the body runs
KalshiAPI(e, kwargs) ==
    LET arg(n) == IF n \in DOMAIN kwargs THEN kwargs[n] ELSE None
        api_key_id == IF Truthy(arg("api_key_id")) THEN arg("api_key_id")
                      ELSE e.KALSHI_API_KEY_ID
        private_key_path == IF Truthy(arg("private_key_path"))
                            THEN arg("private_key_path")
                            ELSE e.KALSHI_PRIVATE_KEY_PATH
        private_key == IF Truthy(private_key_path) /\ e.HAS_CRYPTO
                       THEN load_private_key(e, private_key_path.val[1])
                       ELSE None
    IN  IF ~(DOMAIN kwargs \subseteq InitParams) THEN Raise("TypeError")
        ELSE IF IsRaise(private_key) THEN private_key
        ELSE Value([api_key_id |-> api_key_id,
                    private_key_path |-> private_key_path,
                    private_key |-> private_key])

\* str(int(...)): the decimal digits of a natural number
RECURSIVE DecStr(_)
DecStr(n) ==
    LET digit == <<"0", "1", "2", "3", "4", "5", "6", "7", "8", "9">>[(n % 10) + 1]
    IN  IF n < 10 THEN <<digit>> ELSE DecStr(n \div 10) \o <<digit>>

\* path.split('?')[0]
RECURSIVE BeforeQuery(_)
BeforeQuery(path) ==
    IF path = <<>> \/ Head(path) = "?" THEN <<>>
    ELSE <<Head(path)>> \o BeforeQuery(Tail(path))

\* kalshi_api.py:78  _create_signature(timestamp, method, path)
MutSignWholePath(obj, timestamp, method, path) ==
    IF obj.private_key = None
    THEN Raise("Exception")
    ELSE Value([b64 |-> [signed_with |-> obj.private_key.val,
                         message |-> timestamp \o method \o path]])
create_signature(obj, timestamp, method, path) ==
    IF obj.private_key = None
    THEN Raise("Exception")
    ELSE Value([b64 |-> [signed_with |-> obj.private_key.val,
                         message |-> timestamp \o method \o BeforeQuery(path)]])

\* kalshi_api.py:107  _get_auth_headers(method, path); ms is the clock in milliseconds
MutAuthHeadersUnchecked(obj, method, path, ms) ==
    LET timestamp == DecStr(ms)
        signature == create_signature(obj, timestamp, method, path)
    IN  IF IsRaise(signature) THEN signature
        ELSE Value([h \in (IF Truthy(obj.api_key_id) THEN {"KALSHI-ACCESS-KEY"} ELSE {})
                          \cup {"KALSHI-ACCESS-SIGNATURE", "KALSHI-ACCESS-TIMESTAMP"} |->
                      IF h = "KALSHI-ACCESS-KEY" THEN obj.api_key_id
                      ELSE IF h = "KALSHI-ACCESS-SIGNATURE" THEN signature
                      ELSE Value(timestamp)])
get_auth_headers(obj, method, path, ms) ==
    LET timestamp == DecStr(ms)
        signature == create_signature(obj, timestamp, method, path)
    IN  IF ~Truthy(obj.api_key_id) \/ obj.private_key = None THEN Raise("Exception")
        ELSE IF IsRaise(signature) THEN signature
        ELSE Value([h \in {"KALSHI-ACCESS-KEY", "KALSHI-ACCESS-SIGNATURE",
                           "KALSHI-ACCESS-TIMESTAMP"} |->
                      IF h = "KALSHI-ACCESS-KEY" THEN obj.api_key_id
                      ELSE IF h = "KALSHI-ACCESS-SIGNATURE" THEN signature
                      ELSE Value(timestamp)])

\* kalshi_api.py:121  _request(method, path, authenticated); status is the
\* answer of the remote API.  sent: the requests that left, in order.
request(obj, method, path, authenticated, ms, status) ==
    LET auth == IF authenticated THEN get_auth_headers(obj, method, path, ms)
                ELSE Value(<<>>)
        call == [method |-> method, path |-> path, authenticated |-> authenticated,
                 headers |-> auth.val]
    IN  IF IsRaise(auth) THEN [result |-> auth, sent |-> <<>>]
        ELSE IF status \notin {"200", "201"}
             THEN [result |-> Raise("Exception"), sent |-> <<call>>]
        ELSE [result |-> Value(status), sent |-> <<call>>]

\* kalshi_api.py:260-335  the authenticated endpoints: method and path
GET == <<"GET">>
Endpoints ==
    [ get_balance   |-> [method |-> GET, path |-> <<"/trade-api/v2/portfolio/balance">>],
      get_positions |-> [method |-> GET, path |-> <<"/trade-api/v2/portfolio/positions">>],
      get_orders    |-> [method |-> GET, path |-> <<"/trade-api/v2/portfolio/orders">>],
      create_order  |-> [method |-> <<"POST">>,
                         path |-> <<"/trade-api/v2/portfolio/orders">>],
      cancel_order  |-> [method |-> <<"DELETE">>,
                         path |-> <<"/trade-api/v2/portfolio/orders/", "id">>] ]

-----------------------------------------------------------------------------
(* Inputs *)

GuidNames == <<"g1", "g2", "g3", "g4">>
SeedUsers(n) == [i \in 1..n |-> [id |-> i, yahoo_guid |-> <<GuidNames[i]>>,
                                 yahoo_email |-> None, yahoo_name |-> None]]
\* the subject ids Yahoo hands out, and the empty text
GuidTexts == {<<GuidNames[i]>> : i \in 1..MaxUsers} \cup {<<>>}

\* (access-key id, private key) pairs a user may submit: a private key shorter
\* than one cipher block and one that spans several
KalshiPairs == { << <<"a", "b">>, <<"c">> >>, << <<"c">>, <<"a", "b", "c">> >> }
IvFill == {0, 1}
IVs == {[i \in 1..BlockSize |-> b] : b \in IvFill}

\* session tokens secrets.token_urlsafe(32) may return
Tokens == {"t1", "t2"}

NoEnv == [KALSHI_API_KEY_ID |-> None, KALSHI_PRIVATE_KEY_PATH |-> None,
          HAS_CRYPTO |-> TRUE, files |-> <<>>]
NoStore == [u \in UserIds |-> None]
NoIssue == [t \in Tokens |-> None]
NoResolve == [g \in GuidTexts |-> None]
Idle == [op |-> "none"]
\* yahoo_fantasy.py:139-141  the token fields before anything is loaded
NoTokens == [access_token |-> None, refresh_token |-> None, token_expiry |-> None]

-----------------------------------------------------------------------------
(* CredentialVault: store, load, delete, exists, each called on its own *)

VaultInit ==
    /\ ENCRYPTION_KEY \in {"", "k1"}
    /\ env = NoEnv
    /\ users = SeedUsers(MaxUsers)
    /\ sessions = <<>>
    /\ kalshi_credentials = <<>>
    /\ now = 0
    /\ resp = Idle
    /\ stored = NoStore
    /\ issued = NoIssue
    /\ resolved = NoResolve
    /\ txn = <<>>
    /\ api = None
    /\ wire = {}
    /\ yahoo = NoTokens
    /\ threads = <<>>

VaultStore(u, pair, iv1, iv2) ==
    LET r == save_kalshi_credentials(ENCRYPTION_KEY, users, kalshi_credentials,
                                     u, pair[1], pair[2], iv1, iv2)
    IN  /\ kalshi_credentials' = r.table
        /\ resp' = [op |-> "store", user_id |-> u, result |-> r.result]
        /\ stored' = IF IsRaise(r.result) THEN stored
                     ELSE [stored EXCEPT ![u] = Value(pair)]
        /\ UNCHANGED <<ENCRYPTION_KEY, env, yahoo, threads, resolved, users, sessions, now, issued, txn, api, wire>>

VaultLoad(u) ==
    /\ resp' = [op |-> "load", user_id |-> u,
                result |-> get_kalshi_credentials(ENCRYPTION_KEY, kalshi_credentials, u)]
    /\ UNCHANGED <<ENCRYPTION_KEY, env, yahoo, threads, resolved, users, sessions, kalshi_credentials, now, stored,
                   issued, txn, api, wire>>

VaultDelete(u) ==
    /\ kalshi_credentials' = delete_kalshi_credentials(kalshi_credentials, u)
    /\ resp' = [op |-> "delete", user_id |-> u, result |-> None]
    /\ stored' = [stored EXCEPT ![u] = None]
    /\ UNCHANGED <<ENCRYPTION_KEY, env, yahoo, threads, resolved, users, sessions, now, issued, txn, api, wire>>

VaultExists(u) ==
    /\ resp' = [op |-> "exists", user_id |-> u,
                result |-> Value(user_has_kalshi_credentials(kalshi_credentials, u))]
    /\ UNCHANGED <<ENCRYPTION_KEY, env, yahoo, threads, resolved, users, sessions, kalshi_credentials, now, stored,
                   issued, txn, api, wire>>

VaultNext ==
    \/ \E u \in UserIds, pair \in KalshiPairs, iv1 \in IVs, iv2 \in IVs :
           VaultStore(u, pair, iv1, iv2)
    \/ \E u \in UserIds : VaultLoad(u)
    \/ \E u \in UserIds : VaultDelete(u)
    \/ \E u \in UserIds : VaultExists(u)

SpecVault == VaultInit /\ [][VaultNext]_vars

\* C1: after store(id, (keyId, privateKey)) has completed, load(id) returns
\* exactly (keyId, privateKey).
C1_LoadReturnsStored ==
    (resp.op = "load" /\ stored[resp.user_id] # None)
        => resp.result = stored[resp.user_id]

\* the part of C1 that does hold: the access-key id, which is encrypted under
\* the iv the row keeps, always comes back
C1_KeyIdReturned ==
    (resp.op = "load" /\ stored[resp.user_id] # None /\ resp.result.kind = "value")
        => resp.result.val[1] = stored[resp.user_id].val[1]

C1_Witness ==
    /\ resp.op = "load"
    /\ stored[resp.user_id] # None
    /\ resp.result = stored[resp.user_id]

-----------------------------------------------------------------------------
(* Concurrent requests against the credential table.                       *)
(* Each request runs one database.py function inside get_db()              *)
(* (database.py:49): its statements execute one by one and take effect for *)
(* the other requests at db.commit().  The store is PostgreSQL             *)
(* (database.py:4) at its default isolation: a statement reads the rows    *)
(* committed when it starts; DELETE locks the rows it deletes and waits    *)
(* for a row another open transaction has deleted; the unique index on     *)
(* user_id (database.py:84) makes INSERT wait for an open transaction that *)
(* inserted or deleted a row of that user, and fail when such a row is     *)
(* committed and still there.                                              *)

Procs == 1..NumProcs

IdleTxn == [pc |-> "idle", op |-> "none", user_id |-> 0, pair |-> None,
            creds |-> None, deleted |-> {}, pending |-> None, result |-> None,
            concurrent |-> {}]

Open(q) == txn[q].pc \in {"delete", "insert", "commit"}

\* database.py:84  unique=True on kalshi_credentials.user_id:
\* "wait", "violation" or "ok" for the INSERT of a row of user_id by p
MutUniqueCheckOff(p, user_id) == "ok"
UniqueCheck(p, user_id) ==
    LET live == {r \in Rows(kalshi_credentials) :
                    r.user_id = user_id /\ r.id \notin txn[p].deleted}
    IN  IF \E q \in Procs \ {p} : Open(q) /\ txn[q].pending # None
                                   /\ txn[q].pending.user_id = user_id
        THEN "wait"
        ELSE IF \E r \in live : \E q \in Procs \ {p} : Open(q) /\ r.id \in txn[q].deleted
        THEN "wait"
        ELSE IF live # {} THEN "violation"
        ELSE "ok"

\* the rows of user_id that a DELETE of p finds, and whether one is locked
Targets(user_id) == {r.id : r \in {x \in Rows(kalshi_credentials) : x.user_id = user_id}}
Locked(p, ids) == \E q \in Procs \ {p} : Open(q) /\ txn[q].deleted \cap ids # {}

\* save_kalshi_credentials, database.py:181-182: the two encryptions, before the transaction
TxnBeginSave(p, u, pair, iv1, iv2) ==
    LET e1 == encrypt_credential(ENCRYPTION_KEY, pair[1], iv1)
        e2 == encrypt_credential(ENCRYPTION_KEY, pair[2], iv2)
    IN  /\ txn[p].pc = "idle"
        /\ txn' = [txn EXCEPT ![p] =
                     IF IsRaise(e1) \/ IsRaise(e2)
                     THEN [IdleTxn EXCEPT !.pc = "done", !.op = "save", !.user_id = u,
                                          !.result = IF IsRaise(e1) THEN e1 ELSE e2]
                     ELSE [IdleTxn EXCEPT !.pc = "delete", !.op = "save", !.user_id = u,
                                          !.pair = Value(pair),
                                          !.creds = [user_id |-> u,
                                                     encrypted_api_key |-> e1.val[1],
                                                     encrypted_private_key |-> e2.val[1],
                                                     encryption_iv |-> e1.val[2]]]]
        /\ UNCHANGED <<ENCRYPTION_KEY, env, yahoo, threads, resolved, users, sessions, kalshi_credentials, now, resp,
                       stored, issued, api, wire>>

\* delete_kalshi_credentials, database.py:214: entering the transaction
TxnBeginDelete(p, u) ==
    /\ txn[p].pc = "idle"
    /\ txn' = [txn EXCEPT ![p] = [IdleTxn EXCEPT !.pc = "delete", !.op = "delete",
                                                  !.user_id = u]]
    /\ UNCHANGED <<ENCRYPTION_KEY, env, yahoo, threads, resolved, users, sessions, kalshi_credentials, now, resp,
                   stored, issued, api, wire>>

\* database.py:186 and :217  db.query(KalshiCredentials).filter(...).delete()
TxnDelete(p) ==
    LET ids == Targets(txn[p].user_id)
    IN  /\ txn[p].pc = "delete"
        /\ ~Locked(p, ids)
        /\ txn' = [txn EXCEPT ![p].deleted = ids,
                              ![p].pc = IF txn[p].op = "save" THEN "insert" ELSE "commit"]
        /\ UNCHANGED <<ENCRYPTION_KEY, env, yahoo, threads, resolved, users, sessions, kalshi_credentials, now, resp,
                       stored, issued, api, wire>>

\* database.py:195-196  db.add(creds); db.commit(): the flush sends the INSERT.
\* An IntegrityError leaves through get_db's except branch: db.rollback().
TxnInsert(p) ==
    LET u == txn[p].user_id
        check == IF ~UserExists(users, u) THEN "violation" ELSE UniqueCheck(p, u)
        taken == {txn[q].pending.id : q \in {x \in Procs : txn[x].pending # None}}
        row == [id |-> FreshId(kalshi_credentials, taken),
                user_id |-> u,
                encrypted_api_key |-> txn[p].creds.encrypted_api_key,
                encrypted_private_key |-> txn[p].creds.encrypted_private_key,
                encryption_iv |-> txn[p].creds.encryption_iv]
    IN  /\ txn[p].pc = "insert"
        /\ check # "wait"
        /\ txn' = [txn EXCEPT ![p] =
                     IF check = "violation"
                     THEN [@ EXCEPT !.pc = "done", !.deleted = {},
                                    !.result = Raise("IntegrityError")]
                     ELSE [@ EXCEPT !.pc = "commit", !.pending = row]]
        /\ UNCHANGED <<ENCRYPTION_KEY, env, yahoo, threads, resolved, users, sessions, kalshi_credentials, now, resp,
                       stored, issued, api, wire>>

\* database.py:196, :218, :56  COMMIT: the deletions and the insertion become visible at once
TxnCommit(p) ==
    LET kept == SelectSeq(kalshi_credentials, LAMBDA r : r.id \notin txn[p].deleted)
    IN  /\ txn[p].pc = "commit"
        /\ kalshi_credentials' = IF txn[p].pending = None THEN kept
                                 ELSE Append(kept, txn[p].pending)
        /\ txn' = [txn EXCEPT ![p].pc = "done", ![p].deleted = {}, ![p].pending = None]
        /\ stored' = IF txn[p].op = "save"
                     THEN [stored EXCEPT ![txn[p].user_id] = txn[p].pair]
                     ELSE [stored EXCEPT ![txn[p].user_id] = None]
        /\ UNCHANGED <<ENCRYPTION_KEY, env, yahoo, threads, resolved, users, sessions, now, resp, issued, api, wire>>

\* history: the pairs that stores of user u, still open, are putting in place
BeingStored(u) ==
    {txn[q].pair : q \in {x \in Procs : Open(x) /\ txn[x].op = "save" /\ txn[x].user_id = u}}

\* get_kalshi_credentials, database.py:199: one SELECT over the committed rows.
\* pair and concurrent are history: the pair committed when the SELECT ran and
\* the pairs of the stores open at that moment.
TxnLoad(p, u) ==
    /\ txn[p].pc = "idle"
    /\ txn' = [txn EXCEPT ![p] =
                 [IdleTxn EXCEPT !.pc = "done", !.op = "load", !.user_id = u,
                     !.pair = stored[u], !.concurrent = BeingStored(u),
                     !.result = get_kalshi_credentials(ENCRYPTION_KEY,
                                                       kalshi_credentials, u)]]
    /\ UNCHANGED <<ENCRYPTION_KEY, env, yahoo, threads, resolved, users, sessions, kalshi_credentials, now, resp,
                   stored, issued, api, wire>>

\* user_has_kalshi_credentials, database.py:221: one SELECT count
TxnExists(p, u) ==
    /\ txn[p].pc = "idle"
    /\ txn' = [txn EXCEPT ![p] =
                 [IdleTxn EXCEPT !.pc = "done", !.op = "exists", !.user_id = u,
                     !.pair = stored[u], !.concurrent = BeingStored(u),
                     !.result = Value(user_has_kalshi_credentials(kalshi_credentials, u))]]
    /\ UNCHANGED <<ENCRYPTION_KEY, env, yahoo, threads, resolved, users, sessions, kalshi_credentials, now, resp,
                   stored, issued, api, wire>>

\* The identities the concurrent requests work on, and the two random draws
\* (iv1, iv2) of a store: equal by chance, or different
TxnUsers == {1, 2}
IvDraws == { <<[i \in 1..BlockSize |-> 0], [i \in 1..BlockSize |-> 0]>>,
             <<[i \in 1..BlockSize |-> 1], [i \in 1..BlockSize |-> 0]>> }

\* The table the requests start from: empty, or what an earlier store for user 1 left
InitialTables ==
    {<<>>} \cup
    {save_kalshi_credentials("k1", SeedUsers(MaxUsers), <<>>, 1,
                             pair[1], pair[2], ivs[1], ivs[2]).table :
        pair \in KalshiPairs, ivs \in IvDraws}

\* the plaintext pair of user 1 that InitialTables stores
InitialPair(table) ==
    IF table = <<>> THEN None
    ELSE Value(CHOOSE pair \in KalshiPairs :
                 \E ivs \in IvDraws :
                   table = save_kalshi_credentials("k1", SeedUsers(MaxUsers), <<>>, 1,
                                                   pair[1], pair[2], ivs[1], ivs[2]).table)

TxnInit ==
    /\ ENCRYPTION_KEY = "k1"
    /\ env = NoEnv
    /\ users = SeedUsers(MaxUsers)
    /\ sessions = <<>>
    /\ kalshi_credentials \in InitialTables
    /\ now = 0
    /\ resp = Idle
    /\ stored = [NoStore EXCEPT ![1] = InitialPair(kalshi_credentials)]
    /\ issued = NoIssue
    /\ resolved = NoResolve
    /\ txn = [p \in Procs |-> IdleTxn]
    /\ api = None
    /\ wire = {}
    /\ yahoo = NoTokens
    /\ threads = <<>>

TxnNext ==
    \/ \E p \in Procs, u \in TxnUsers, pair \in KalshiPairs, ivs \in IvDraws :
           TxnBeginSave(p, u, pair, ivs[1], ivs[2])
    \/ \E p \in Procs, u \in TxnUsers : TxnBeginDelete(p, u)
    \/ \E p \in Procs : TxnDelete(p)
    \/ \E p \in Procs : TxnInsert(p)
    \/ \E p \in Procs : TxnCommit(p)
    \/ \E p \in Procs, u \in TxnUsers : TxnLoad(p, u)
    \/ \E p \in Procs, u \in TxnUsers : TxnExists(p, u)

SpecTxn == TxnInit /\ [][TxnNext]_vars

RowsOf(u) == Len(SelectSeq(kalshi_credentials, LAMBDA r : r.user_id = u))

\* C8: in every reachable state, under any interleaving of the store and delete
\* calls of concurrent requests, each identity has at most one credential row.
C8_AtMostOneRow == \A u \in TxnUsers : RowsOf(u) <= 1

\* two stores for one identity ran concurrently and the unique index refused one
C8_Witness ==
    \E p, q \in Procs :
        /\ p # q
        /\ txn[p].op = "save" /\ txn[q].op = "save"
        /\ txn[p].user_id = txn[q].user_id
        /\ txn[p].result = Raise("IntegrityError")
        /\ txn[q].pc = "done" /\ txn[q].result = None
        /\ RowsOf(txn[p].user_id) = 1

\* a load or exists that ran while a store was replacing an existing pair
ReadDuringReplace(p) ==
    /\ txn[p].pc = "done"
    /\ txn[p].op \in {"load", "exists"}
    /\ txn[p].pair # None
    /\ txn[p].concurrent # {}

\* C9: while store replaces an existing pair of an identity, a concurrent load
\* or exists for that identity observes the complete old pair or the complete
\* new pair, never absence and never a mix.
C9_ReaderSeesOldOrNew ==
    \A p \in Procs :
        ReadDuringReplace(p) =>
            IF txn[p].op = "load"
            THEN txn[p].result \in ({txn[p].pair} \cup txn[p].concurrent)
            ELSE txn[p].result = Value(TRUE)

\* what does hold of C9: the reader never finds the identity without a row,
\* and the access-key id it gets is the old one
C9_NeverAbsent ==
    \A p \in Procs :
        ReadDuringReplace(p) =>
            /\ txn[p].result # None
            /\ txn[p].op = "exists" => txn[p].result = Value(TRUE)
            /\ (txn[p].op = "load" /\ txn[p].result.kind = "value")
                   => txn[p].result.val[1] = txn[p].pair.val[1]

C9_Witness ==
    \E p \in Procs : ReadDuringReplace(p) /\ txn[p].op = "load"
                     /\ txn[p].result = txn[p].pair

-----------------------------------------------------------------------------
(* SessionManager: create, validate, revoke, sweep, each called on its own, *)
(* and the passing of time                                                  *)

\* expires_days a caller passes (the default is 30, database.py:139)
ExpiresDays == {0, 15, 30}
\* the clock advances in steps of this many days
TickDays == {15}

SessionInit ==
    /\ ENCRYPTION_KEY = "k1"
    /\ env = NoEnv
    /\ users = SeedUsers(MaxUsers)
    /\ sessions = <<>>
    /\ kalshi_credentials = <<>>
    /\ now = 0
    /\ resp = Idle
    /\ stored = NoStore
    /\ issued = NoIssue
    /\ resolved = NoResolve
    /\ txn = <<>>
    /\ api = None
    /\ wire = {}
    /\ yahoo = NoTokens
    /\ threads = <<>>

SessionCreate(u, days, token) ==
    LET r == create_session(users, sessions, now, u, days, token)
    IN  /\ sessions' = r.table
        /\ resp' = [op |-> "create", user_id |-> u, result |-> r.result]
        /\ issued' = IF IsRaise(r.result) THEN issued
                     ELSE [issued EXCEPT ![token] =
                              Value([user_id |-> u, created |-> now, ttl |-> days])]
        /\ UNCHANGED <<ENCRYPTION_KEY, env, yahoo, threads, resolved, users, kalshi_credentials, now, stored,
                       txn, api, wire>>

SessionValidate(token) ==
    /\ resp' = [op |-> "validate", token |-> token, at |-> now,
                result |-> get_user_by_session(users, sessions, now, token)]
    /\ UNCHANGED <<ENCRYPTION_KEY, env, yahoo, threads, resolved, users, sessions, kalshi_credentials, now,
                   stored, issued, txn, api, wire>>

SessionRevoke(token) ==
    /\ sessions' = delete_session(sessions, token)
    /\ resp' = [op |-> "revoke", token |-> token, result |-> None,
                existed |-> \E i \in 1..Len(sessions) :
                               sessions[i].session_token = token]
    /\ issued' = [issued EXCEPT ![token] = None]
    /\ UNCHANGED <<ENCRYPTION_KEY, env, yahoo, threads, resolved, users, kalshi_credentials, now, stored,
                   txn, api, wire>>

SessionSweep ==
    /\ sessions' = cleanup_expired_sessions(sessions, now)
    /\ resp' = [op |-> "sweep", result |-> None,
                removed |-> Len(sessions) - Len(cleanup_expired_sessions(sessions, now))]
    /\ UNCHANGED <<ENCRYPTION_KEY, env, yahoo, threads, resolved, users, kalshi_credentials, now, stored,
                   issued, txn, api, wire>>

Tick(d) ==
    /\ now + d <= MaxClock
    /\ now' = now + d
    /\ UNCHANGED <<ENCRYPTION_KEY, env, yahoo, threads, resolved, users, sessions, kalshi_credentials, resp,
                   stored, issued, txn, api, wire>>

SessionNext ==
    \/ \E u \in UserIds, days \in ExpiresDays, token \in Tokens :
           SessionCreate(u, days, token)
    \/ \E token \in Tokens : SessionValidate(token)
    \/ \E token \in Tokens : SessionRevoke(token)
    \/ SessionSweep
    \/ \E d \in TickDays : Tick(d)

SpecSession == SessionInit /\ [][SessionNext]_vars

\* C2: for a token T returned by create(id, ttl) and not revoked, validate(T)
\* returns identity id at every clock value now < creation time + ttl and
\* none at every clock value now >= creation time + ttl.
C2_ValidUntilExpiry ==
    \A t \in Tokens :
        issued[t] # None =>
            LET i == issued[t].val
                user == get_user_by_session(users, sessions, now, t)
            IN  /\ now < i.created + i.ttl => (user # None /\ user.id = i.user_id)
                /\ now >= i.created + i.ttl => user = None
                /\ (resp.op = "validate" /\ resp.token = t /\ resp.at = now)
                       => resp.result = user

\* a token created with a positive ttl is validated at the very day it expires,
\* its row still in the table, and is refused
C2_Witness ==
    \E t \in Tokens :
        /\ issued[t] # None
        /\ issued[t].val.ttl > 0
        /\ now = issued[t].val.created + issued[t].val.ttl
        /\ \E i \in 1..Len(sessions) : sessions[i].session_token = t
        /\ resp.op = "validate" /\ resp.token = t /\ resp.at = now
        /\ resp.result = None

-----------------------------------------------------------------------------
(* RequestSigner: a KalshiAPI object built from the environment or from    *)
(* arguments, and the requests made with it                                *)

ApiKeyIds == {None, Value(<<"AK1">>)}
KeyPathArgs == {None, Value(<<"key.pem">>)}
Environments ==
    {[KALSHI_API_KEY_ID |-> k, KALSHI_PRIVATE_KEY_PATH |-> p, HAS_CRYPTO |-> c,
      files |-> f] :
        k \in ApiKeyIds, p \in KeyPathArgs, c \in BOOLEAN,
        f \in {<<>>} \cup [KeyPaths -> {"garbage", "PEM_X"}]}

\* (method, path) of the calls made: the client's endpoints, among them
\* cancel_order(order_id) with an order id that holds a '?'
Calls == { <<Endpoints.get_balance.method, Endpoints.get_balance.path>>,
           <<Endpoints.create_order.method, Endpoints.create_order.path>>,
           <<Endpoints.cancel_order.method,
             <<"/trade-api/v2/portfolio/orders/", "id", "?", "x=1">> >> }
Millis == {7, 42}
Statuses == {"200", "401"}

SignerInit ==
    /\ ENCRYPTION_KEY = "k1"
    /\ env \in Environments
    /\ users = <<>>
    /\ sessions = <<>>
    /\ kalshi_credentials = <<>>
    /\ now = 0
    /\ resp = Idle
    /\ stored = NoStore
    /\ issued = NoIssue
    /\ resolved = NoResolve
    /\ txn = <<>>
    /\ api = None
    /\ wire = {}
    /\ yahoo = NoTokens
    /\ threads = <<>>

\* KalshiAPI(api_key_id=..., private_key_path=...), as sync_kalshi_data.py:16 does
SignerConstruct(k, p) ==
    LET made == KalshiAPI(env, [api_key_id |-> k, private_key_path |-> p])
    IN  /\ api' = IF IsRaise(made) THEN api ELSE made
        /\ resp' = [op |-> "construct", result |-> made]
        /\ UNCHANGED <<ENCRYPTION_KEY, env, yahoo, threads, resolved, users, sessions, kalshi_credentials, now,
                       stored, issued, txn, wire>>

\* api._request(method, path, authenticated)
SignerRequest(call, authenticated, ms, status) ==
    LET r == request(api.val, call[1], call[2], authenticated, ms, status)
    IN  /\ api # None
        /\ wire' = wire \cup {r.sent[i] : i \in 1..Len(r.sent)}
        /\ resp' = [op |-> "request", obj |-> api.val, authenticated |-> authenticated,
                    result |-> r.result, sent |-> r.sent]
        /\ UNCHANGED <<ENCRYPTION_KEY, env, yahoo, threads, resolved, users, sessions, kalshi_credentials, now,
                       stored, issued, txn, api>>

SignerNext ==
    \/ \E k \in ApiKeyIds, p \in KeyPathArgs : SignerConstruct(k, p)
    \/ \E call \in Calls, authenticated \in BOOLEAN, ms \in Millis, status \in Statuses :
           SignerRequest(call, authenticated, ms, status)

SpecSigner == SignerInit /\ [][SignerNext]_vars

AuthHeaders == {"KALSHI-ACCESS-KEY", "KALSHI-ACCESS-SIGNATURE", "KALSHI-ACCESS-TIMESTAMP"}

\* C6: an authenticated outbound request is never sent unsigned: when the
\* access-key id or the private key is missing, the request fails before any
\* network call, and every authenticated request sent carries the three auth
\* headers.
C6_NeverSentUnsigned ==
    /\ \A w \in wire : w.authenticated => AuthHeaders \subseteq DOMAIN w.headers
    /\ (resp.op = "request" /\ resp.authenticated
            /\ (~Truthy(resp.obj.api_key_id) \/ resp.obj.private_key = None))
         => (IsRaise(resp.result) /\ resp.sent = <<>>)

\* both cases of C6 happened: a signed request left, and a request of an object
\* without a usable key was refused
C6_Witness ==
    /\ \E w \in wire : w.authenticated
    /\ resp.op = "request" /\ resp.authenticated
    /\ resp.obj.private_key = None
    /\ IsRaise(resp.result)

-----------------------------------------------------------------------------
(* IdentityLinker.resolve: get_or_create_user called on its own *)

GuidArgs == {Value(g) : g \in GuidTexts \ {<<>>}}
EmailArgs == {None, Value(<<"e1">>), Value(<<"e2">>)}
NameArgs == {None, Value(<<"n1">>), Value(<<"n2">>)}

ResolveInit ==
    /\ ENCRYPTION_KEY = "k1"
    /\ env = NoEnv
    /\ users = <<>>
    /\ sessions = <<>>
    /\ kalshi_credentials = <<>>
    /\ now = 0
    /\ resp = Idle
    /\ stored = NoStore
    /\ issued = NoIssue
    /\ resolved = NoResolve
    /\ txn = <<>>
    /\ api = None
    /\ wire = {}
    /\ yahoo = NoTokens
    /\ threads = <<>>

\* history: the first id returned for a subject id
FirstResolve(old, yahoo_guid, r) ==
    IF IsRaise(r.result) \/ old[yahoo_guid.val] # None THEN old
    ELSE [old EXCEPT ![yahoo_guid.val] = Value(r.result.val.id)]

Resolve(yahoo_guid, yahoo_email, yahoo_name) ==
    LET r == get_or_create_user(users, yahoo_guid, yahoo_email, yahoo_name)
    IN  /\ users' = r.table
        /\ resp' = [op |-> "resolve", guid |-> yahoo_guid.val,
                    again |-> resolved[yahoo_guid.val] # None, result |-> r.result]
        /\ resolved' = FirstResolve(resolved, yahoo_guid, r)
        /\ UNCHANGED <<ENCRYPTION_KEY, env, yahoo, threads, sessions, kalshi_credentials, now, stored,
                       issued, txn, api, wire>>

ResolveNext ==
    \E yahoo_guid \in GuidArgs, yahoo_email \in EmailArgs, yahoo_name \in NameArgs :
        Resolve(yahoo_guid, yahoo_email, yahoo_name)

SpecResolve == ResolveInit /\ [][ResolveNext]_vars

RowsWithGuid(g) == {i \in 1..Len(users) : users[i].yahoo_guid = g}

\* C10: resolve for a subject id that was already resolved returns the same
\* Identity id as the first call and creates no new row, and no call changes
\* the external_subject_id of an existing Identity.
C10_ResolveStable ==
    /\ \A g \in GuidTexts :
          /\ resolved[g] = None => RowsWithGuid(g) = {}
          /\ resolved[g] # None =>
                /\ Cardinality(RowsWithGuid(g)) = 1
                /\ \A i \in RowsWithGuid(g) : users[i].id = resolved[g].val
    /\ resp.op = "resolve" =>
          /\ resp.result.kind = "value"
          /\ resp.result.val.id = resolved[resp.guid].val
          /\ resp.result.val.yahoo_guid = resp.guid

\* a subject id resolved before is resolved again, with another display name
C10_Witness ==
    /\ resp.op = "resolve" /\ resp.again
    /\ resp.result.val.yahoo_name = Value(<<"n2">>)
    /\ resp.result.val.id = resolved[resp.guid].val
    /\ Len(users) = MaxUsers

-----------------------------------------------------------------------------
(* wagers_server.py: the OAuth callback *)

\* wagers_server.py:211  if not yahoo_guid
MutNoneOnly(yahoo_guid) == yahoo_guid = None
no_user_id(yahoo_guid) == ~Truthy(yahoo_guid)

\* wagers_server.py:134  yahoo_callback.  q holds the query string and the
\* answers of Yahoo: q.query ("error", "no_code" or "code"), q.token_exchange
\* ("raise" or the status), q.xoauth_yahoo_guid, q.guid_lookup and q.fantasy
\* (status or "raise", and the fields of a 200 answer); q.session_token is the
\* draw of secrets.token_urlsafe.  Returns the redirect and the two tables.
yahoo_callback(utable, stable, clock, q) ==
    LET out(redirect, ut, st, user, tok) ==
            [redirect |-> redirect, users |-> ut, sessions |-> st, user |-> user,
             token |-> tok]
        guid1 == q.xoauth_yahoo_guid
        guid2 == IF ~Truthy(guid1) /\ q.guid_lookup.status = "200"
                 THEN q.guid_lookup.value ELSE guid1
        lookup_raised == ~Truthy(guid1) /\ q.guid_lookup.status = "raise"
        yahoo_email == None
        yahoo_name == IF Truthy(guid2) /\ q.fantasy.status = "200"
                      THEN q.fantasy.display_name ELSE None
        \* :206  'guid' in item and not yahoo_guid: inside "if yahoo_guid:" (:182)
        yahoo_guid == IF Truthy(guid2) /\ q.fantasy.status = "200"
                         /\ q.fantasy.guid # None /\ ~Truthy(guid2)
                      THEN q.fantasy.guid ELSE guid2
        got == get_or_create_user(utable, yahoo_guid, yahoo_email, yahoo_name)
        made == create_session(got.table, stable, clock, got.result.val.id,
                               DefaultExpiresDays, q.session_token)
    IN  IF q.query = "error" THEN out("error", utable, stable, None, None)
        ELSE IF q.query = "no_code" THEN out("no_code", utable, stable, None, None)
        ELSE IF q.token_exchange = "raise" THEN out("oauth_error", utable, stable, None, None)
        ELSE IF q.token_exchange # "200"
             THEN out("token_exchange_failed", utable, stable, None, None)
        ELSE IF lookup_raised THEN out("oauth_error", utable, stable, None, None)
        ELSE IF no_user_id(yahoo_guid) THEN out("no_user_id", utable, stable, None, None)
        ELSE IF IsRaise(got.result) THEN out("oauth_error", utable, stable, None, None)
        ELSE IF IsRaise(made.result) THEN out("oauth_error", got.table, stable, got.result, None)
        ELSE out("login=success", got.table, made.table, got.result, made.result)

\* no subject identifier comes from the token response nor from any lookup
NoSubject(q) ==
    /\ ~Truthy(q.xoauth_yahoo_guid)
    /\ ~(q.guid_lookup.status = "200" /\ Truthy(q.guid_lookup.value))
    /\ ~(q.fantasy.status = "200" /\ Truthy(q.fantasy.guid))

YahooCallback(q) ==
    LET r == yahoo_callback(users, sessions, now, q)
    IN  /\ users' = r.users
        /\ sessions' = r.sessions
        /\ resp' = [op |-> "callback", redirect |-> r.redirect, token |-> r.token,
                    no_subject |-> NoSubject(q),
                    changed |-> (r.users # users \/ r.sessions # sessions)]
        /\ issued' = IF r.token = None THEN issued
                     ELSE [issued EXCEPT ![r.token.val] =
                              Value([user_id |-> r.user.val.id, created |-> now,
                                     ttl |-> DefaultExpiresDays])]
        /\ resolved' = IF r.user = None THEN resolved
                       ELSE FirstResolve(resolved, Value(r.user.val.yahoo_guid),
                                         [result |-> r.user])
        /\ UNCHANGED <<ENCRYPTION_KEY, env, yahoo, threads, kalshi_credentials, now, stored, txn, api,
                       wire>>

\* the subject ids Yahoo answers with in the callback, None and the empty text
CallbackGuids == {None, Value(<<>>), Value(<<"g1">>), Value(<<"g2">>)}
NotRequested == "not_requested"
LookupAnswers ==
    {[status |-> st, value |-> None] : st \in {"raise", "404"}}
    \cup {[status |-> "200", value |-> v] : v \in CallbackGuids}
FantasyAnswers ==
    {[status |-> st, display_name |-> None, guid |-> None] : st \in {"raise", "500"}}
    \cup {[status |-> "200", display_name |-> n, guid |-> fg] :
             n \in {None, Value(<<"n1">>)}, fg \in {None, Value(<<"g1">>)}}
NoAnswers == [query |-> "code", token_exchange |-> "200", xoauth_yahoo_guid |-> None,
              guid_lookup |-> [status |-> NotRequested, value |-> None],
              fantasy |-> [status |-> NotRequested, display_name |-> None,
                           guid |-> None],
              session_token |-> "t1"]

\* neither the token response nor the guid lookup gives a subject id, and the
\* fantasy lookup answers one when it is asked
FallbackInputs ==
    {[NoAnswers EXCEPT !.xoauth_yahoo_guid = g, !.guid_lookup = l, !.fantasy = f,
                       !.session_token = t] :
        g \in {x \in CallbackGuids : ~Truthy(x)},
        l \in {x \in LookupAnswers : x.status # "raise" /\ ~Truthy(x.value)},
        f \in {x \in FantasyAnswers : x.status = "200" /\ Truthy(x.guid)},
        t \in Tokens}

\* every way the callback can be called and answered.  A request the code does
\* not make has no answer: the guid lookup is made only without a guid in the
\* token response (:170), the fantasy lookup only with a guid (:182);
\* FallbackInputs hold the answer the fantasy lookup has ready without a guid.
CallbackInputs ==
    FallbackInputs \cup
    {[NoAnswers EXCEPT !.query = x] : x \in {"error", "no_code"}}
    \cup {[NoAnswers EXCEPT !.token_exchange = x] : x \in {"raise", "400"}}
    \cup {[NoAnswers EXCEPT !.xoauth_yahoo_guid = g, !.fantasy = f,
                            !.session_token = t] :
             g \in {x \in CallbackGuids : Truthy(x)}, f \in FantasyAnswers,
             t \in Tokens}
    \cup {[NoAnswers EXCEPT !.xoauth_yahoo_guid = g, !.guid_lookup = l,
                            !.session_token = t] :
             g \in {x \in CallbackGuids : ~Truthy(x)},
             l \in {x \in LookupAnswers : ~(x.status = "200" /\ Truthy(x.value))},
             t \in Tokens}
    \cup {[NoAnswers EXCEPT !.xoauth_yahoo_guid = g, !.guid_lookup = l, !.fantasy = f,
                            !.session_token = t] :
             g \in {x \in CallbackGuids : ~Truthy(x)},
             l \in {x \in LookupAnswers : x.status = "200" /\ Truthy(x.value)},
             f \in FantasyAnswers, t \in Tokens}

CallbackInit ==
    /\ ENCRYPTION_KEY = "k1"
    /\ env = NoEnv
    /\ users = <<>>
    /\ sessions = <<>>
    /\ kalshi_credentials = <<>>
    /\ now = 0
    /\ resp = Idle
    /\ stored = NoStore
    /\ issued = NoIssue
    /\ resolved = NoResolve
    /\ txn = <<>>
    /\ api = None
    /\ wire = {}
    /\ yahoo = NoTokens
    /\ threads = <<>>

CallbackNext ==
    \/ \E q \in CallbackInputs : YahooCallback(q)
    \/ \E d \in TickDays : Tick(d)
    \/ SessionSweep

SpecCallback == CallbackInit /\ [][CallbackNext]_vars

\* C4: in the OAuth callback, whenever no subject identifier is obtained from
\* the token response or from any fallback lookup, no Identity row is created
\* or updated and no session token is created.
C4_NoSubjectNoRows ==
    (resp.op = "callback" /\ resp.no_subject) => (~resp.changed /\ resp.token = None)

\* the callback ran with a token response but without any subject id, while
\* users and sessions exist
C4_Witness ==
    /\ resp.op = "callback"
    /\ resp.redirect = "no_user_id"
    /\ Len(users) > 0
    /\ Len(sessions) > 0

-----------------------------------------------------------------------------
(* wagers_server.py: the request handlers *)

\* wagers_server.py:68  load_user, run before every request.  header is the
\* token of an "Authorization: Bearer" header (None without one), cookie the
\* wp_session cookie.  Returns g.user, g.kalshi_api and the exception raised.
load_user(e, env_key, utable, stable, ctable, clock, header, cookie) ==
    LET g(user, kalshi_api, raised) ==
            [user |-> user, kalshi_api |-> kalshi_api, raised |-> raised]
        session_token == IF header # None THEN header ELSE cookie
        with_api(user, made) ==
            IF IsRaise(made) THEN g(Value(user), None, made)
            ELSE g(Value(user), made, None)
        with_creds(user, creds) ==
            IF IsRaise(creds) THEN g(Value(user), None, creds)
            ELSE IF creds = None THEN g(Value(user), None, None)
            ELSE with_api(user, KalshiAPI(e, [use_demo |-> Value(<<"False">>),
                                              api_key_id |-> Value(creds.val[1]),
                                              private_key_pem |-> Value(creds.val[2])]))
        with_user(user) ==
            IF user = None THEN g(None, None, None)
            ELSE with_creds(user, get_kalshi_credentials(env_key, ctable, user.id))
    IN  with_user(IF session_token = None THEN None
                  ELSE get_user_by_session(utable, stable, clock, session_token.val))

\* wagers_server.py:96  require_auth: "run" lets the handler run
require_auth(g) == IF g.user = None THEN "401" ELSE "run"

\* wagers_server.py:106  require_kalshi
MutRequireUserOnly(g) == IF g.user = None THEN "401" ELSE "run"
require_kalshi(g) ==
    IF g.user = None THEN "401"
    ELSE IF g.kalshi_api = None THEN "403"
    ELSE "run"

\* wagers_server.py:323-426  the trading routes and the client call of each
TradingRoutes == {"get_balance", "get_markets", "get_positions", "place_order",
                  "get_orders", "cancel_order"}
ClientCall ==
    [ get_balance   |-> Endpoints.get_balance  @@ [authenticated |-> TRUE],
      get_markets   |-> [method |-> GET, path |-> <<"/trade-api/v2/markets">>,
                         authenticated |-> FALSE],
      get_positions |-> Endpoints.get_positions @@ [authenticated |-> TRUE],
      place_order   |-> Endpoints.create_order @@ [authenticated |-> TRUE],
      get_orders    |-> Endpoints.get_orders   @@ [authenticated |-> TRUE],
      cancel_order  |-> Endpoints.cancel_order @@ [authenticated |-> TRUE] ]

\* the body of a trading handler: its client call inside try/except.  With
\* g.kalshi_api None the call is an AttributeError; get_nfl_props catches every
\* exception per series and answers with empty lists.
trading_handler(route, g, fields_ok, ms, status) ==
    LET c == ClientCall[route]
        answer(r) == [status |-> IF route = "get_markets" \/ ~IsRaise(r.result)
                                 THEN "200" ELSE "500",
                      sent |-> r.sent]
    IN  IF route = "place_order" /\ ~fields_ok THEN [status |-> "400", sent |-> <<>>]
        ELSE IF g.kalshi_api = None
             THEN [status |-> IF route = "get_markets" THEN "200" ELSE "500",
                   sent |-> <<>>]
        ELSE answer(request(g.kalshi_api.val, c.method, c.path, c.authenticated, ms,
                            status))

\* a whole request to a trading route: load_user, require_kalshi, the handler
trading_request(e, env_key, utable, stable, ctable, clock, route, header, cookie, fields_ok, ms, status) ==
    LET out(g, code, ran, sent) ==
            [status |-> code, handler_ran |-> ran, sent |-> sent, g |-> g]
        handled(g, h) == out(g, h.status, TRUE, h.sent)
        gated(g, gate) ==
            IF gate # "run" THEN out(g, gate, FALSE, <<>>)
            ELSE handled(g, trading_handler(route, g, fields_ok, ms, status))
        loaded(g) ==
            IF g.raised # None THEN out(g, "500", FALSE, <<>>)
            ELSE gated(g, require_kalshi(g))
    IN  loaded(load_user(e, env_key, utable, stable, ctable, clock, header, cookie))

\* wagers_server.py:257  logout, after load_user: the session of the cookie
\* is deleted
logout(e, env_key, utable, stable, ctable, clock, header, cookie) ==
    LET loaded(g) ==
            IF g.raised # None THEN [status |-> "500", sessions |-> stable]
            ELSE IF cookie # None
                 THEN [status |-> "200",
                       sessions |-> delete_session(stable, cookie.val)]
            ELSE [status |-> "200", sessions |-> stable]
    IN  loaded(load_user(e, env_key, utable, stable, ctable, clock, header, cookie))

\* wagers_server.py:273  link_kalshi, after load_user and require_auth: the
\* submitted pair is tried with get_balance, then saved
MutLinkUnverified(e, env_key, utable, stable, ctable, clock, header, cookie, data, iv1, iv2, ms, status) ==
    LET out(code, table, sent) == [status |-> code, table |-> table, sent |-> sent]
        c == Endpoints.get_balance
        save(balance_data, saved) ==
            IF IsRaise(saved.result) THEN out("500", ctable, balance_data.sent)
            ELSE out("200", saved.table, balance_data.sent)
        verified(g, balance_data) ==
            IF IsRaise(balance_data.result) THEN out("400", ctable, balance_data.sent)
            ELSE save(balance_data,
                      save_kalshi_credentials(env_key, utable, ctable, g.user.val.id,
                                              data.api_key.val, data.private_key.val,
                                              iv1, iv2))
        made(g, test_api) ==
            IF IsRaise(test_api)
            THEN save([sent |-> <<>>],
                      save_kalshi_credentials(env_key, utable, ctable, g.user.val.id,
                                              data.api_key.val, data.private_key.val,
                                              iv1, iv2))
            ELSE verified(g, request(test_api.val, c.method, c.path, TRUE, ms, status))
        loaded(g) ==
            IF g.raised # None THEN out("500", ctable, <<>>)
            ELSE IF require_auth(g) # "run" THEN out("401", ctable, <<>>)
            ELSE IF ~Truthy(data.api_key) \/ ~Truthy(data.private_key)
                 THEN out("400", ctable, <<>>)
            ELSE made(g, KalshiAPI(e, [use_demo |-> Value(<<"False">>),
                                       api_key_id |-> data.api_key,
                                       private_key_pem |-> data.private_key]))
    IN  loaded(load_user(e, env_key, utable, stable, ctable, clock, header, cookie))
link_kalshi(e, env_key, utable, stable, ctable, clock, header, cookie, data, iv1, iv2, ms, status) ==
    LET out(code, table, sent) == [status |-> code, table |-> table, sent |-> sent]
        c == Endpoints.get_balance
        save(balance_data, saved) ==
            IF IsRaise(saved.result) THEN out("500", ctable, balance_data.sent)
            ELSE out("200", saved.table, balance_data.sent)
        verified(g, balance_data) ==
            IF IsRaise(balance_data.result) THEN out("400", ctable, balance_data.sent)
            ELSE save(balance_data,
                      save_kalshi_credentials(env_key, utable, ctable, g.user.val.id,
                                              data.api_key.val, data.private_key.val,
                                              iv1, iv2))
        made(g, test_api) ==
            IF IsRaise(test_api) THEN out("400", ctable, <<>>)
            ELSE verified(g, request(test_api.val, c.method, c.path, TRUE, ms, status))
        loaded(g) ==
            IF g.raised # None THEN out("500", ctable, <<>>)
            ELSE IF require_auth(g) # "run" THEN out("401", ctable, <<>>)
            ELSE IF ~Truthy(data.api_key) \/ ~Truthy(data.private_key)
                 THEN out("400", ctable, <<>>)
            ELSE made(g, KalshiAPI(e, [use_demo |-> Value(<<"False">>),
                                       api_key_id |-> data.api_key,
                                       private_key_pem |-> data.private_key]))
    IN  loaded(load_user(e, env_key, utable, stable, ctable, clock, header, cookie))

\* wagers_server.py:308  unlink_kalshi, after load_user and require_auth
unlink_kalshi(e, env_key, utable, stable, ctable, clock, header, cookie) ==
    LET loaded(g) ==
            IF g.raised # None THEN [status |-> "500", table |-> ctable]
            ELSE IF require_auth(g) # "run" THEN [status |-> "401", table |-> ctable]
            ELSE [status |-> "200",
                  table |-> delete_kalshi_credentials(ctable, g.user.val.id)]
    IN  loaded(load_user(e, env_key, utable, stable, ctable, clock, header, cookie))

-----------------------------------------------------------------------------
(* The server: logins, requests, and the vault's store called outside the
   request handlers *)

ServerUsers == {1, 2}
\* the user whose credentials get stored
ServerLinked == {1}
\* the process has credentials of its own in the environment
ServerEnv == [KALSHI_API_KEY_ID |-> Value(<<"AK1">>),
              KALSHI_PRIVATE_KEY_PATH |-> Value(<<"key.pem">>),
              HAS_CRYPTO |-> TRUE, files |-> [f \in KeyPaths |-> "PEM_X"]]
\* (user, token drawn) of the logins
Logins == ServerUsers \X Tokens
Bearers == {None, Value("t1")}
Cookies == {None} \cup {Value(t) : t \in Tokens}
ServerPair == << <<"a", "b">>, <<"c">> >>
LinkBodies == {[api_key |-> None, private_key |-> None],
               [api_key |-> Value(ServerPair[1]), private_key |-> Value(<<>>)],
               [api_key |-> Value(ServerPair[1]), private_key |-> Value(ServerPair[2])]}
ServerIv == [i \in 1..BlockSize |-> 1]
ServerMillis == 7
ServerTick == 30

ServerInit ==
    /\ ENCRYPTION_KEY = "k1"
    /\ env = ServerEnv
    /\ users = SeedUsers(MaxUsers)
    /\ sessions = <<>>
    /\ kalshi_credentials = <<>>
    /\ now = 0
    /\ resp = Idle
    /\ stored = NoStore
    /\ issued = NoIssue
    /\ resolved = NoResolve
    /\ txn = <<>>
    /\ api = None
    /\ wire = {}
    /\ yahoo = NoTokens
    /\ threads = <<>>

\* history: what the request's token validates to, and what is stored for it
Presented(header, cookie) ==
    LET session_token == IF header # None THEN header ELSE cookie
        found(user) ==
            [header |-> header, cookie |-> cookie,
             identity |-> IF user = None THEN None ELSE Value(user.id),
             pair |-> IF user = None THEN None ELSE stored[user.id],
             loaded |-> user # None
                        /\ get_kalshi_credentials(ENCRYPTION_KEY, kalshi_credentials,
                                                  user.id).kind = "value"]
    IN  found(IF session_token = None THEN None
              ELSE get_user_by_session(users, sessions, now, session_token.val))

ServerTrading(route, header, cookie, fields_ok, status) ==
    LET answered(r) ==
            /\ resp' = [op |-> route, req |-> Presented(header, cookie),
                        status |-> r.status, handler_ran |-> r.handler_ran,
                        sent |-> r.sent, signer |-> r.g.kalshi_api]
            /\ wire' = wire \cup {r.sent[i] : i \in 1..Len(r.sent)}
    IN  /\ answered(trading_request(env, ENCRYPTION_KEY, users, sessions,
                                    kalshi_credentials, now, route, header, cookie,
                                    fields_ok, ServerMillis, status))
        /\ UNCHANGED <<ENCRYPTION_KEY, env, yahoo, threads, resolved, users, sessions,
                       kalshi_credentials, now, stored, issued, txn, api>>

ServerLogout(header, cookie) ==
    LET answered(r) ==
            /\ sessions' = r.sessions
            /\ resp' = [op |-> "logout", req |-> Presented(header, cookie),
                        status |-> r.status]
    IN  /\ answered(logout(env, ENCRYPTION_KEY, users, sessions, kalshi_credentials,
                           now, header, cookie))
        /\ UNCHANGED <<ENCRYPTION_KEY, env, yahoo, threads, resolved, users, kalshi_credentials, now,
                       stored, issued, txn, api, wire>>

ServerLink(header, cookie, data, status) ==
    LET answered(r, p) ==
            /\ kalshi_credentials' = r.table
            /\ resp' = [op |-> "link", req |-> p, status |-> r.status, sent |-> r.sent]
            /\ wire' = wire \cup {r.sent[i] : i \in 1..Len(r.sent)}
            /\ stored' = IF r.status = "200"
                         THEN [stored EXCEPT ![p.identity.val] =
                                  Value(<<data.api_key.val, data.private_key.val>>)]
                         ELSE stored
    IN  /\ answered(link_kalshi(env, ENCRYPTION_KEY, users, sessions,
                                kalshi_credentials, now, header, cookie, data,
                                ServerIv, ServerIv, ServerMillis, status),
                    Presented(header, cookie))
        /\ UNCHANGED <<ENCRYPTION_KEY, env, yahoo, threads, resolved, users, sessions, now, issued, txn,
                       api>>

ServerUnlink(header, cookie) ==
    LET answered(r, p) ==
            /\ kalshi_credentials' = r.table
            /\ resp' = [op |-> "unlink", req |-> p, status |-> r.status]
            /\ stored' = IF r.status = "200"
                         THEN [stored EXCEPT ![p.identity.val] = None]
                         ELSE stored
    IN  /\ answered(unlink_kalshi(env, ENCRYPTION_KEY, users, sessions,
                                  kalshi_credentials, now, header, cookie),
                    Presented(header, cookie))
        /\ UNCHANGED <<ENCRYPTION_KEY, env, yahoo, threads, resolved, users, sessions, now, issued, txn,
                       api, wire>>

ServerNext ==
    \/ \E login \in Logins : SessionCreate(login[1], DefaultExpiresDays, login[2])
    \/ \E u \in ServerLinked : VaultStore(u, ServerPair, ServerIv, ServerIv)
    \/ \E route \in TradingRoutes, header \in Bearers, cookie \in Cookies,
          status \in Statuses :
           \E fields_ok \in IF route = "place_order" THEN BOOLEAN ELSE {TRUE} :
               ServerTrading(route, header, cookie, fields_ok, status)
    \/ \E header \in Bearers, cookie \in Cookies : ServerLogout(header, cookie)
    \/ \E header \in Bearers, cookie \in Cookies, data \in LinkBodies,
          status \in Statuses : ServerLink(header, cookie, data, status)
    \/ \E header \in Bearers, cookie \in Cookies : ServerUnlink(header, cookie)
    \/ Tick(ServerTick)

SpecServer == ServerInit /\ [][ServerNext]_vars

Refusals == {"401", "403", "500"}

\* C5: a trading endpoint handler runs only for a request whose token
\* validates to an identity and whose identity's credentials were loaded; in
\* every other case, including any error while validating or loading, the
\* request is answered with a refusal and no remote trading call is made.
C5_HandlerOnlyWithCredentials ==
    resp.op \in TradingRoutes =>
        /\ resp.handler_ran => (resp.req.identity # None /\ resp.req.loaded
                                /\ resp.signer # None)
        /\ ~resp.handler_ran => (resp.status \in Refusals /\ resp.sent = <<>>)

\* a request of an identity with a valid session and a stored pair, presenting
\* its token both ways, is refused because loading the credentials failed
C5_Witness ==
    /\ resp.op \in TradingRoutes
    /\ resp.req.identity # None /\ resp.req.pair # None
    /\ resp.req.header # None /\ resp.req.cookie # None
    /\ ~resp.handler_ran
    /\ resp.status = "500"

\* the token a request presents one way only
OnlyToken(req) ==
    IF req.header # None /\ req.cookie = None THEN req.header
    ELSE IF req.header = None /\ req.cookie # None THEN req.cookie
    ELSE None

\* C3: after a logout request that presents session token T, whether T is
\* presented as a bearer header or as the cookie, T's session row is deleted.
C3_LogoutDeletesSession ==
    (resp.op = "logout" /\ OnlyToken(resp.req) # None)
        => \A i \in 1..Len(sessions) :
              sessions[i].session_token # OnlyToken(resp.req).val

\* C7: for a request with a valid session whose identity has a stored
\* credential pair, the request obtains a signer that holds that identity's
\* decrypted key id and private key.
C7_SignerHoldsStoredKey ==
    (resp.op \in TradingRoutes /\ resp.req.identity # None /\ resp.req.pair # None)
        => /\ resp.signer # None
           /\ resp.signer.val.api_key_id = Value(resp.req.pair.val[1])
           /\ resp.signer.val.private_key = Value([pem |-> resp.req.pair.val[2]])

-----------------------------------------------------------------------------
(* Invalid session tokens, as the callers see them *)

\* a token value no create call has drawn
Unissued == "t0"

\* the session row of a token is absent (never issued, revoked or swept), or
\* present with the wall clock past its expires_at
RowAbsent(t) == \A i \in 1..Len(sessions) : sessions[i].session_token # t
RowExpired(t) == \E i \in 1..Len(sessions) :
                    sessions[i].session_token = t /\ sessions[i].expires_at <= now

\* what a caller sees of the requests that present token t as header or cookie
Outcome(header, cookie) ==
    [ trading |-> [route \in TradingRoutes |->
                      trading_request(env, ENCRYPTION_KEY, users, sessions,
                                      kalshi_credentials, now, route, header, cookie,
                                      TRUE, ServerMillis, "200").status],
      logout |-> logout(env, ENCRYPTION_KEY, users, sessions, kalshi_credentials, now,
                        header, cookie).status,
      link |-> link_kalshi(env, ENCRYPTION_KEY, users, sessions, kalshi_credentials,
                           now, header, cookie,
                           [api_key |-> Value(ServerPair[1]),
                            private_key |-> Value(ServerPair[2])],
                           ServerIv, ServerIv, ServerMillis, "200").status,
      unlink |-> unlink_kalshi(env, ENCRYPTION_KEY, users, sessions,
                               kalshi_credentials, now, header, cookie).status ]
Seen(t) ==
    [ validate |-> get_user_by_session(users, sessions, now, t),
      bearer |-> Outcome(Value(t), None),
      cookie |-> Outcome(None, Value(t)) ]

\* C11: the caller-visible outcome of validate, and of any request that
\* presents the token, is identical for a never-issued token, an expired token
\* and a revoked token.
C11_InvalidTokensAlike ==
    \A t \in Tokens :
        (RowAbsent(t) \/ RowExpired(t)) => Seen(t) = Seen(Unissued)

\* one token was just revoked by a logout, the other one is expired with its
\* row still in the table, and a third value was never issued
C11_Witness ==
    /\ resp.op = "logout" /\ resp.req.identity # None /\ resp.req.cookie # None
    /\ RowAbsent(resp.req.cookie.val)
    /\ \E t \in Tokens : RowExpired(t)
    /\ RowAbsent(Unissued)

-----------------------------------------------------------------------------
(* The life of a session token *)

\* validate(t) in this state and in the next one
Validate(t) == get_user_by_session(users, sessions, now, t)
ValidateNext(t) == get_user_by_session(users', sessions', now', t)

\* this step writes a session row with token t
WritesRow(t) ==
    /\ Len(sessions') = Len(sessions) + 1
    /\ sessions'[Len(sessions')].session_token = t

C12_RevivedOnlyByReissue ==
    [][ \A t \in Tokens :
           (Validate(t) = None /\ ValidateNext(t) # None)
               => (RowAbsent(t) /\ WritesRow(t)) ]_vars

C13_NoTwoRowsShareToken ==
    \A i, j \in 1..Len(sessions) :
        sessions[i].session_token = sessions[j].session_token => i = j

\* C14: every session row written by create(identity_id, ttl) has expires_at
\* strictly greater than the clock value at creation, for every ttl value the
\* operation accepts.
C14_ExpiresInFuture ==
    \A i \in 1..Len(sessions) :
        LET t == sessions[i].session_token
        IN  issued[t] # None => sessions[i].expires_at > issued[t].val.created

\* C15: revoke is idempotent: revoking a token that is absent raises no error
\* and leaves the session store unchanged, and revoke(T); revoke(T) leaves the
\* same state as a single revoke(T).
C15_RevokeIdempotent ==
    [][ \A t \in Tokens :
           SessionRevoke(t) =>
               /\ resp'.result = None
               /\ RowAbsent(t) => sessions' = sessions
               /\ delete_session(sessions', t) = sessions'
               /\ \A i \in 1..Len(sessions') : sessions'[i].session_token # t ]_vars

\* a token whose row is absent was revoked while the table holds another row
C15_Witness ==
    /\ resp.op = "revoke" /\ ~resp.existed
    /\ Len(sessions) > 0

\* C16: sweepExpired removes exactly the session rows with expires_at < now
\* and no other row, so for every token the result of validate is the same
\* immediately before and immediately after a sweep.
C16_SweepExact ==
    [][ SessionSweep =>
           /\ sessions' = SelectSeq(sessions, LAMBDA r : r.expires_at >= now)
           /\ \A t \in Tokens : ValidateNext(t) = Validate(t) ]_vars

\* a sweep removed a row while a row that expires this very day and is no
\* longer valid stays
C16_Witness ==
    /\ resp.op = "sweep" /\ resp.removed > 0
    /\ \E i \in 1..Len(sessions) : sessions[i].expires_at = now

-----------------------------------------------------------------------------
(* database.py:64-105: deleting a row of users.  No function of the program
   deletes one; the declarations decide what a deletion does to the rows that
   reference it. *)

\* a nullable column holding no value (no row of users has this id)
NULL == 0

\* A deletion by a DELETE statement, as every delete of database.py is written
\* (db.query(...).filter(...).delete()): the database applies ON DELETE CASCADE
\* of both foreign keys (:84, :99).  A deletion through the unit of work
\* (db.delete(user)): the relationships (:75-76) declare no delete cascade and
\* no passive_deletes, so the rows they load are de-associated: their user_id,
\* which is nullable, is set to NULL before the user row is deleted.
DeleteWays == {"statement", "unit_of_work"}
delete_user(utable, stable, ctable, user_id, way) ==
    LET disown(r) == IF r.user_id = user_id THEN [r EXCEPT !.user_id = NULL] ELSE r
    IN  [ users |-> SelectSeq(utable, LAMBDA r : r.id # user_id),
          sessions |-> IF way = "statement"
                       THEN SelectSeq(stable, LAMBDA r : r.user_id # user_id)
                       ELSE [i \in 1..Len(stable) |-> disown(stable[i])],
          kalshi_credentials |->
                       IF way = "statement"
                       THEN SelectSeq(ctable, LAMBDA r : r.user_id # user_id)
                       ELSE [i \in 1..Len(ctable) |-> disown(ctable[i])] ]

DeleteUser(u, way) ==
    LET deleted(r) ==
            /\ users' = r.users
            /\ sessions' = r.sessions
            /\ kalshi_credentials' = r.kalshi_credentials
    IN  /\ UserExists(users, u)
        /\ deleted(delete_user(users, sessions, kalshi_credentials, u, way))
        /\ resp' = [op |-> "delete_user", user_id |-> u, way |-> way]
        /\ stored' = [stored EXCEPT ![u] = None]
        /\ issued' = [t \in Tokens |->
                         IF issued[t] # None /\ issued[t].val.user_id = u THEN None
                         ELSE issued[t]]
        /\ UNCHANGED <<ENCRYPTION_KEY, env, yahoo, threads, resolved, now, txn, api, wire>>

CascadeUsers == {1, 2}

CascadeInit ==
    /\ ENCRYPTION_KEY = "k1"
    /\ env = NoEnv
    /\ users = SeedUsers(MaxUsers)
    /\ sessions = <<>>
    /\ kalshi_credentials = <<>>
    /\ now = 0
    /\ resp = Idle
    /\ stored = NoStore
    /\ issued = NoIssue
    /\ resolved = NoResolve
    /\ txn = <<>>
    /\ api = None
    /\ wire = {}
    /\ yahoo = NoTokens
    /\ threads = <<>>

CascadeNext ==
    \/ \E u \in CascadeUsers, token \in Tokens :
           SessionCreate(u, DefaultExpiresDays, token)
    \/ \E u \in CascadeUsers : VaultStore(u, ServerPair, ServerIv, ServerIv)
    \/ \E u \in CascadeUsers, way \in DeleteWays : DeleteUser(u, way)

SpecCascade == CascadeInit /\ [][CascadeNext]_vars

\* C17: after an Identity is deleted, no credential pair row and no session
\* row that belonged to it remains in the store (neither still referencing it
\* nor left with an empty owner).
C17_NoOrphanRows ==
    /\ \A i \in 1..Len(sessions) : UserExists(users, sessions[i].user_id)
    /\ \A i \in 1..Len(kalshi_credentials) :
          UserExists(users, kalshi_credentials[i].user_id)

\* what does hold: a deletion by a DELETE statement leaves no such row
C17_StatementCascades ==
    [][ \A u \in CascadeUsers :
           DeleteUser(u, "statement") =>
               /\ \A i \in 1..Len(sessions') : sessions'[i].user_id # u
               /\ \A i \in 1..Len(kalshi_credentials') :
                     kalshi_credentials'[i].user_id # u
               /\ Len(sessions') =
                     Cardinality({i \in 1..Len(sessions) : sessions[i].user_id # u}) ]_vars

-----------------------------------------------------------------------------
(* yahoo_fantasy.py: the token fields of YahooFantasyAPI and _api_request.
   Time is in minutes.  A thread is one _api_request call on the object; its
   steps are the stretches of code between two network calls. *)

\* yahoo_fantasy.py:172  _is_token_valid
MutValidAtMargin(y, clock) ==
    IF ~Truthy(y.access_token) \/ y.token_expiry = None THEN FALSE
    ELSE clock <= y.token_expiry.val - SafetyMargin
is_token_valid(y, clock) ==
    IF ~Truthy(y.access_token) \/ y.token_expiry = None THEN FALSE
    ELSE clock < y.token_expiry.val - SafetyMargin

\* yahoo_fantasy.py:266-276  _refresh_access_token, once the provider answered
\* the grant: the fields after it, the value returned, and what _save_tokens
\* wrote to the token file (None when it was not called)
MutReplaceRefreshToken(y, clock, status, data) ==
    IF status # "200" THEN [ok |-> FALSE, y |-> y, saved |-> None]
    ELSE LET t == [access_token |-> data.access_token,
                   refresh_token |-> data.refresh_token,
                   token_expiry |-> Value(clock + data.expires_in)]
         IN  [ok |-> TRUE, y |-> t, saved |-> Value(t)]
MutForgetOnFailure(y, clock, status, data) ==
    IF status # "200"
    THEN [ok |-> FALSE, y |-> [y EXCEPT !.access_token = None], saved |-> None]
    ELSE LET t == [access_token |-> data.access_token,
                   refresh_token |-> IF data.refresh_token # None
                                     THEN data.refresh_token ELSE y.refresh_token,
                   token_expiry |-> Value(clock + data.expires_in)]
         IN  [ok |-> TRUE, y |-> t, saved |-> Value(t)]
refresh_access_token(y, clock, status, data) ==
    IF status # "200" THEN [ok |-> FALSE, y |-> y, saved |-> None]
    ELSE LET t == [access_token |-> data.access_token,
                   refresh_token |-> IF data.refresh_token # None
                                     THEN data.refresh_token ELSE y.refresh_token,
                   token_expiry |-> Value(clock + data.expires_in)]
         IN  [ok |-> TRUE, y |-> t, saved |-> Value(t)]

\* yahoo_fantasy.py:240-250  _exchange_code, once the provider answered
\* (data["refresh_token"] raises KeyError after access_token was assigned)
exchange_code(y, clock, status, data) ==
    IF status # "200" THEN [ok |-> FALSE, y |-> y]
    ELSE IF data.refresh_token = None
    THEN [ok |-> FALSE, y |-> [y EXCEPT !.access_token = data.access_token]]
    ELSE [ok |-> TRUE,
          y |-> [access_token |-> data.access_token,
                 refresh_token |-> data.refresh_token,
                 token_expiry |-> Value(clock + data.expires_in)]]

\* yahoo_fantasy.py:178  authenticate, up to its first network call: "valid"
\* returns True, "refresh" posts the refresh grant, "flow" runs the auth flow
authenticate(y, clock) ==
    IF is_token_valid(y, clock) THEN "valid"
    ELSE IF Truthy(y.refresh_token) THEN "refresh"
    ELSE "flow"

\* yahoo_fantasy.py:295-304  _api_request, once a GET was answered: retried
\* tells the answer of the second GET from the answer of the first
MutRetryWhile401(status, retried) ==
    IF status = "401" THEN "refresh"
    ELSE IF status # "200" THEN "raise"
    ELSE "return"
after_response(status, retried) ==
    IF status = "401" /\ ~retried THEN "refresh"
    ELSE IF status # "200" THEN "raise"
    ELSE "return"

\* one _api_request call: where it stands, whether its GET was retried, and the
\* history of the call: the 401 answers it got, the refresh grants it posted
\* after a 401, the GETs it sent, and how it ended
IdleThread == [pc |-> "idle", retried |-> FALSE, n401 |-> 0, refreshes |-> 0,
               gets |-> 0, refresh_ok |-> FALSE, outcome |-> "none"]

\* requests.get / requests.post: the answers of the provider, "raise" when the
\* call raises instead of answering
\* the threads that call _api_request on the one client
Callers == {1, 2}
GetAnswers == {"200", "401", "500", "raise"}
GrantAnswers == {"200", "400", "raise"}
ExpiresIn == {3, 25}
GrantData == [access_token : {Value(<<"a2">>)},
              refresh_token : {None, Value(<<"r2">>)},
              expires_in : ExpiresIn]
\* yahoo_fantasy.py:151  _load_tokens: no token file, a file written by
\* _save_tokens, and a file without access_token
TokenFiles == {NoTokens,
               [access_token |-> Value(<<"a1">>), refresh_token |-> Value(<<"r1">>),
                token_expiry |-> Value(25)],
               [access_token |-> None, refresh_token |-> Value(<<"r1">>),
                token_expiry |-> Value(25)]}
YahooTick == 20

Done(th, outcome) == [th EXCEPT !.pc = "done", !.outcome = outcome]
SendGet(th) == [th EXCEPT !.pc = "get", !.gets = @ + 1]

\* yahoo_fantasy.py:280-292  _api_request up to its first network call
ApiRequest(p) ==
    LET th == threads[p]
        a == authenticate(yahoo, now)
    IN  /\ th.pc = "idle"
        /\ threads' = [threads EXCEPT ![p] =
              IF a = "valid" THEN SendGet(th)
              ELSE IF a = "refresh" THEN [th EXCEPT !.pc = "auth_refresh"]
              ELSE [th EXCEPT !.pc = "auth_flow"]]
        /\ UNCHANGED <<ENCRYPTION_KEY, env, yahoo, resolved, users, sessions,
                       kalshi_credentials, now, resp, stored, issued, txn, api, wire>>

\* what the last _refresh_access_token call was answered, returned and wrote
RefreshReturn(status, r) ==
    [op |-> "refresh", status |-> status, ok |-> r.ok, saved |-> r.saved]

\* yahoo_fantasy.py:185-188  authenticate: its refresh grant was answered
AuthRefreshed(p, status, data) ==
    LET th == threads[p]
        r == refresh_access_token(yahoo, now, status, data)
    IN  /\ th.pc = "auth_refresh"
        /\ yahoo' = r.y
        /\ threads' = [threads EXCEPT ![p] =
              IF status = "raise" THEN Done(th, "error")
              ELSE IF r.ok THEN SendGet(th)
              ELSE [th EXCEPT !.pc = "auth_flow"]]
        /\ resp' = RefreshReturn(status, r)
        /\ UNCHANGED <<ENCRYPTION_KEY, env, resolved, users, sessions,
                       kalshi_credentials, now, stored, issued, txn, api, wire>>

\* yahoo_fantasy.py:192-227  _run_auth_flow: the user pastes a code or nothing,
\* and the code is exchanged
AuthFlow(p, code, status, data) ==
    LET th == threads[p]
        r == exchange_code(yahoo, now, status, data)
    IN  /\ th.pc = "auth_flow"
        /\ yahoo' = IF code THEN r.y ELSE yahoo
        /\ threads' = [threads EXCEPT ![p] =
              IF code /\ status # "raise" /\ r.ok THEN SendGet(th)
              ELSE Done(th, "error")]
        /\ UNCHANGED <<ENCRYPTION_KEY, env, resolved, users, sessions,
                       kalshi_credentials, now, resp, stored, issued, txn, api, wire>>

\* yahoo_fantasy.py:290-304  a GET was answered
Answered(p, status) ==
    LET th == threads[p]
        seen == [th EXCEPT !.n401 = IF status = "401" THEN @ + 1 ELSE @]
        next == after_response(status, th.retried)
    IN  /\ th.pc = "get"
        /\ threads' = [threads EXCEPT ![p] =
              IF status = "raise" THEN Done(seen, "error")
              ELSE IF next = "refresh"
                   THEN [seen EXCEPT !.pc = "refresh", !.refreshes = @ + 1]
              ELSE IF next = "raise" THEN Done(seen, "error")
              ELSE Done(seen, "ok")]
        /\ UNCHANGED <<ENCRYPTION_KEY, env, yahoo, resolved, users, sessions,
                       kalshi_credentials, now, resp, stored, issued, txn, api, wire>>

\* yahoo_fantasy.py:297-302  the refresh grant posted after a 401 was answered
Refreshed(p, status, data) ==
    LET th == threads[p]
        r == refresh_access_token(yahoo, now, status, data)
    IN  /\ th.pc = "refresh"
        /\ yahoo' = r.y
        /\ threads' = [threads EXCEPT ![p] =
              IF status # "raise" /\ r.ok
              THEN [SendGet(th) EXCEPT !.retried = TRUE, !.refresh_ok = TRUE]
              ELSE Done(th, "error")]
        /\ resp' = RefreshReturn(status, r)
        /\ UNCHANGED <<ENCRYPTION_KEY, env, resolved, users, sessions,
                       kalshi_credentials, now, stored, issued, txn, api, wire>>

\* the call has returned or raised; the thread makes its next call
ApiReturn(p) ==
    /\ threads[p].pc = "done"
    /\ threads' = [threads EXCEPT ![p] = IdleThread]
    /\ UNCHANGED <<ENCRYPTION_KEY, env, yahoo, resolved, users, sessions,
                   kalshi_credentials, now, resp, stored, issued, txn, api, wire>>

YahooClock ==
    /\ now + YahooTick <= MaxClock
    /\ now' = now + YahooTick
    /\ UNCHANGED <<ENCRYPTION_KEY, env, yahoo, threads, resolved, users, sessions,
                   kalshi_credentials, resp, stored, issued, txn, api, wire>>

RefreshInit ==
    /\ ENCRYPTION_KEY = "k1"
    /\ env = NoEnv
    /\ users = <<>>
    /\ sessions = <<>>
    /\ kalshi_credentials = <<>>
    /\ now = 0
    /\ resp = Idle
    /\ stored = NoStore
    /\ issued = NoIssue
    /\ resolved = NoResolve
    /\ txn = <<>>
    /\ api = None
    /\ wire = {}
    /\ yahoo \in TokenFiles
    /\ threads = [p \in Callers |-> IdleThread]

ThreadStep(p) ==
    \/ ApiRequest(p)
    \/ \E status \in GrantAnswers, data \in GrantData : AuthRefreshed(p, status, data)
    \/ \E code \in BOOLEAN, status \in GrantAnswers, data \in GrantData :
           AuthFlow(p, code, status, data)
    \/ \E status \in GetAnswers : Answered(p, status)
    \/ \E status \in GrantAnswers, data \in GrantData : Refreshed(p, status, data)
    \/ ApiReturn(p)

RefreshNext ==
    \/ \E p \in Callers : ThreadStep(p)
    \/ YahooClock

SpecRefresh == RefreshInit /\ [][RefreshNext]_vars

\* every network call returns: it is answered or it raises
SpecRefreshFair == SpecRefresh /\ \A p \in Callers : WF_vars(ThreadStep(p))

\* ---------------------------------------------------------------------------
\* One refresh and one retry per request
\* ---------------------------------------------------------------------------

\* the history of one _api_request call agrees with "one refresh, one retry"
OneRefreshOneRetry(th) ==
    /\ th.refreshes = (IF th.n401 >= 1 THEN 1 ELSE 0)
    /\ th.n401 <= 2
    /\ th.gets <= 2
    /\ (th.gets = 2) = th.refresh_ok
    /\ th.refresh_ok => th.refreshes = 1
    /\ (th.pc = "done" /\ (th.n401 = 2 \/ (th.refreshes = 1 /\ ~th.refresh_ok)))
           => th.outcome = "error"

\* C18: within one _api_request call a 401 answer makes the call post exactly
\* one refresh grant and, when the grant succeeds, send the GET exactly once
\* more; a second 401 or a failed grant ends the call with an exception; every
\* call that has started ends (each network call being answered or raising).
C18_OneRefreshThenEnds ==
    /\ [](\A p \in Callers : OneRefreshOneRetry(threads[p]))
    /\ \A p \in Callers : (threads[p].pc # "idle") ~> (threads[p].pc = "done")

\* a call that got a 401, refreshed, retried and returned the second answer
C18_Witness ==
    \E p \in Callers :
        LET th == threads[p]
        IN  /\ th.pc = "done"
            /\ th.n401 = 1
            /\ th.refreshes = 1
            /\ th.refresh_ok
            /\ th.gets = 2
            /\ th.outcome = "ok"

\* a call ended by the second 401
C18_SecondUnauthorized ==
    \E p \in Callers :
        threads[p].pc = "done" /\ threads[p].n401 = 2 /\ threads[p].outcome = "error"

\* ---------------------------------------------------------------------------
\* Concurrent refreshes
\* ---------------------------------------------------------------------------

\* the threads inside _refresh_access_token: each has posted its refresh
\* grant (yahoo_fantasy.py:254) and waits for the answer
Refreshing == {p \in Callers : threads[p].pc \in {"auth_refresh", "refresh"}}

\* C19: of the _refresh_access_token calls that run at the same time on one
\* client, at most one has sent a refresh grant to the provider.
C19_SingleFlight == Cardinality(Refreshing) <= 1

\* ---------------------------------------------------------------------------
\* Validity of the provider token
\* ---------------------------------------------------------------------------

\* now < expiresAt - 5 minutes (false when no expiry is held)
BeforeMargin ==
    yahoo.token_expiry # None /\ now + SafetyMargin < yahoo.token_expiry.val
TokensPresent == Truthy(yahoo.access_token) /\ yahoo.token_expiry # None
\* _is_token_valid() returned True at yahoo_fantasy.py:280: the call sent its
\* GET without authenticating
SentAtOnce(p) == threads'[p].pc = "get"

\* C20 as stated: _is_token_valid() returns True if and only if
\* now < token_expiry - 5 minutes, whatever the token fields hold.
C20_ValidIffBeforeMargin ==
    [][\A p \in Callers : ApiRequest(p) =>
          /\ SentAtOnce(p) <=> BeforeMargin
          /\ is_token_valid(yahoo, now) <=> BeforeMargin]_vars

\* C20, amended: _is_token_valid() returns True if and only if an access token
\* and an expiry are held and now < token_expiry - 5 minutes.
C20_ValidIffHeldAndBeforeMargin ==
    [][\A p \in Callers : ApiRequest(p) =>
          /\ SentAtOnce(p) <=> (TokensPresent /\ BeforeMargin)
          /\ is_token_valid(yahoo, now) <=> (TokensPresent /\ BeforeMargin)]_vars

\* a call made exactly five minutes before the expiry, the tokens held: the
\* token is found invalid and the call posts a refresh grant before any GET
C20_Witness ==
    \E p \in Callers :
        /\ TokensPresent
        /\ now + SafetyMargin = yahoo.token_expiry.val
        /\ threads[p].pc = "auth_refresh"
        /\ threads[p].gets = 0

\* a call made before the margin with no access token held does not send its GET
C20_MissingAccessToken ==
    \E p \in Callers :
        /\ yahoo.access_token = None
        /\ BeforeMargin
        /\ threads[p].pc = "auth_refresh"

\* ---------------------------------------------------------------------------
\* What a refresh replaces and what it keeps
\* ---------------------------------------------------------------------------

\* a _refresh_access_token call of thread p is answered status with body data
RefreshAnswered(p, status, data) ==
    Refreshed(p, status, data) \/ AuthRefreshed(p, status, data)

\* C21: a successful _refresh_access_token leaves access_token and
\* token_expiry at the values of the response (the expiry counted from now)
\* and refresh_token at the one of the response when it carries one, at the
\* one held before the call when it carries none.
C21_RefreshReplacesPair ==
    [][\A p \in Callers, data \in GrantData : RefreshAnswered(p, "200", data) =>
          /\ resp'.ok
          /\ yahoo'.access_token = data.access_token
          /\ yahoo'.token_expiry = Value(now + data.expires_in)
          /\ data.refresh_token # None => yahoo'.refresh_token = data.refresh_token
          /\ data.refresh_token = None => yahoo'.refresh_token = yahoo.refresh_token]_vars

\* a refresh succeeded on a response without refresh token: the token file
\* written holds the new access token and the refresh token loaded at startup
C21_Witness ==
    /\ resp.op = "refresh"
    /\ resp.ok
    /\ resp.saved # None
    /\ resp.saved.val.access_token = Value(<<"a2">>)
    /\ resp.saved.val.refresh_token = Value(<<"r1">>)

\* C29: a refresh grant answered with a status other than 200 makes
\* _refresh_access_token return False, leaves access_token, refresh_token and
\* token_expiry as they were and writes no token file.
C29_FailedRefreshKeepsTokens ==
    [][\A p \in Callers, data \in GrantData, status \in GrantAnswers \ {"200", "raise"} :
          RefreshAnswered(p, status, data) =>
              /\ ~resp'.ok
              /\ resp'.saved = None
              /\ yahoo' = yahoo]_vars

\* a refresh was refused while the access token and the refresh token loaded
\* at startup were held
C29_Witness ==
    /\ resp.op = "refresh"
    /\ resp.status = "400"
    /\ ~resp.ok
    /\ resp.saved = None
    /\ yahoo.access_token = Value(<<"a1">>)
    /\ yahoo.refresh_token = Value(<<"r1">>)

-----------------------------------------------------------------------------
(* encryption.py: encrypt_credential and decrypt_credential on their own   *)

\* the plaintexts: every text of at most MaxText characters, the empty one included
Plaintexts == UNION {[1..k -> {Chars[i] : i \in 1..Len(Chars)}] : k \in 0..MaxText}
\* os.urandom(16): every block
CipherIvs == [1..BlockSize -> Byte]
CipherKeys == {"k1", "k2"}

CipherInit ==
    /\ ENCRYPTION_KEY \in CipherKeys
    /\ env = NoEnv
    /\ users = <<>>
    /\ sessions = <<>>
    /\ kalshi_credentials = <<>>
    /\ now = 0
    /\ resp = Idle
    /\ stored = NoStore
    /\ issued = NoIssue
    /\ resolved = NoResolve
    /\ txn = <<>>
    /\ api = None
    /\ wire = {}
    /\ yahoo = NoTokens
    /\ threads = <<>>

\* encryption.py:23  encrypt_credential(plaintext)
CipherEncrypt(plaintext, iv) ==
    /\ resp.op = "none"
    /\ resp' = [op |-> "encrypt", plaintext |-> plaintext,
                result |-> encrypt_credential(ENCRYPTION_KEY, plaintext, iv)]
    /\ UNCHANGED <<ENCRYPTION_KEY, env, yahoo, threads, resolved, users, sessions,
                   kalshi_credentials, now, stored, issued, txn, api, wire>>

\* encryption.py:45  decrypt_credential applied to the pair encrypt_credential returned
CipherDecrypt ==
    /\ resp.op = "encrypt"
    /\ ~IsRaise(resp.result)
    /\ resp' = [op |-> "decrypt", plaintext |-> resp.plaintext,
                pair |-> resp.result.val,
                result |-> decrypt_credential(ENCRYPTION_KEY, resp.result.val[1],
                                              resp.result.val[2])]
    /\ UNCHANGED <<ENCRYPTION_KEY, env, yahoo, threads, resolved, users, sessions,
                   kalshi_credentials, now, stored, issued, txn, api, wire>>

CipherNext ==
    \/ \E plaintext \in Plaintexts, iv \in CipherIvs : CipherEncrypt(plaintext, iv)
    \/ CipherDecrypt

SpecCipher == CipherInit /\ [][CipherNext]_vars

\* C22: decrypt_credential applied to the (ciphertext, iv) pair that
\* encrypt_credential(p) returned, the key unchanged, returns p, for every
\* plaintext p.
C22_DecryptInvertsEncrypt ==
    resp.op = "decrypt" => resp.result = Value(resp.plaintext)

\* a plaintext that fills whole cipher blocks, so that the padding is a block
\* of its own, was encrypted and decrypted
C22_Witness ==
    /\ resp.op = "decrypt"
    /\ Len(resp.plaintext) = BlockSize
    /\ Len(resp.pair[1]) = 2 * BlockSize
    /\ resp.result = Value(resp.plaintext)

-----------------------------------------------------------------------------
(* The message that is signed                                              *)

\* str.upper() of a method name
Upper(text) ==
    [i \in 1..Len(text) |->
        CASE text[i] = "get" -> "GET"
          [] text[i] = "post" -> "POST"
          [] text[i] = "delete" -> "DELETE"
          [] OTHER -> text[i]]
\* the text before the first '?', the whole text when it holds none
UpToQuery(text) ==
    LET marks == {i \in 1..Len(text) : text[i] = "?"}
    IN  IF marks = {} THEN text
        ELSE SubSeq(text, 1, (CHOOSE i \in marks : \A j \in marks : i <= j) - 1)
Signed(w) == w.headers["KALSHI-ACCESS-SIGNATURE"].val.b64.message

-----------------------------------------------------------------------------
(* The server with a stored pair it may be unable to read: the pair of user 1
   was stored under key "k1" by an earlier process, the two ivs of the store
   equal by chance or different, and the key of this process is "k1" or "k2" *)

UnreadableInit ==
    /\ ENCRYPTION_KEY \in CipherKeys
    /\ env = ServerEnv
    /\ users = SeedUsers(MaxUsers)
    /\ sessions = <<>>
    /\ kalshi_credentials \in
           {save_kalshi_credentials("k1", SeedUsers(MaxUsers), <<>>, 1, ServerPair[1],
                                    ServerPair[2], ivs[1], ivs[2]).table : ivs \in IvDraws}
    /\ now = 0
    /\ resp = Idle
    /\ stored = [NoStore EXCEPT ![1] = Value(ServerPair)]
    /\ issued = NoIssue
    /\ resolved = NoResolve
    /\ txn = <<>>
    /\ api = None
    /\ wire = {}
    /\ yahoo = NoTokens
    /\ threads = <<>>

UnreadableNext ==
    \/ \E login \in Logins : SessionCreate(login[1], DefaultExpiresDays, login[2])
    \/ \E u \in ServerLinked : VaultLoad(u)
    \/ \E header \in Bearers, cookie \in Cookies, data \in LinkBodies,
          status \in Statuses : ServerLink(header, cookie, data, status)
    \/ \E header \in Bearers, cookie \in Cookies : ServerUnlink(header, cookie)
    \/ Tick(ServerTick)

SpecUnreadable == UnreadableInit /\ [][UnreadableNext]_vars

\* decrypt_credential raised on the stored pair of the request's identity
DecryptionFailed(req) == req.identity # None /\ req.pair # None /\ ~req.loaded

\* C24: a link or unlink request of an identity with a valid session whose
\* stored pair cannot be decrypted is still handled: it is not answered with
\* a server error.
C24_UnreadableIsNotFatal ==
    (resp.op \in {"link", "unlink"} /\ DecryptionFailed(resp.req)) => resp.status # "500"

\* the stored pair of user 1 cannot be decrypted by this process
C24_PairUnreadable ==
    /\ resp.op = "load"
    /\ IsRaise(resp.result)
    /\ resp.result.exc \in {"ValueError", "UnicodeDecodeError"}

-----------------------------------------------------------------------------
(* The encryption key at startup                                            *)

\* C25: a process without ENCRYPTION_KEY fails when it starts, so in a
\* process that runs no store or load call fails for want of the key.
C25_KeyCheckedAtStartup ==
    (resp.op \in {"store", "load"} /\ IsRaise(resp.result)) => ENCRYPTION_KEY # ""

-----------------------------------------------------------------------------
(* The secondary lookup of the callback                                     *)

\* C26: when the token response carries no subject id and the guid lookup
\* yields none, the fantasy lookup is made, and the subject id it returns
\* resolves the user: the callback logs that user in.
C26_SecondaryLookupUsed ==
    [][\A q \in FallbackInputs : YahooCallback(q) =>
          /\ resp'.redirect = "login=success"
          /\ \E i \in 1..Len(users') : users'[i].yahoo_guid = q.fantasy.guid.val]_vars

-----------------------------------------------------------------------------
(* Concurrent get_or_create_user calls.  Each call is one transaction inside *)
(* get_db(): the SELECT reads the committed rows, the INSERT is sent by the  *)
(* flush of db.commit() and takes effect for the others at COMMIT; the       *)
(* unique index on yahoo_guid makes an INSERT wait for an open transaction   *)
(* that inserted the same value                                              *)

IdleRace == [pc |-> "idle", guid |-> <<>>, name |-> None, pending |-> None,
             result |-> None]
RaceGuids == {<<"g1">>, <<"g2">>}
RaceNames == {None, Value(<<"n1">>)}

\* database.py:69  unique=True on users.yahoo_guid: "wait", "violation" or
\* "ok" for the INSERT of a row of yahoo_guid by p
MutGuidCheckOff(p, yahoo_guid) == "ok"
GuidCheck(p, yahoo_guid) ==
    IF \E q \in Procs \ {p} : txn[q].pc = "commit" /\ txn[q].pending # None
                              /\ txn[q].pending.yahoo_guid = yahoo_guid
    THEN "wait"
    ELSE IF \E i \in 1..Len(users) : users[i].yahoo_guid = yahoo_guid THEN "violation"
    ELSE "ok"

\* database.py:116  db.query(User).filter(User.yahoo_guid == yahoo_guid).first()
RaceSelect(p, yahoo_guid, yahoo_name) ==
    /\ txn[p].pc = "idle"
    /\ txn' = [txn EXCEPT ![p] =
                 [IdleRace EXCEPT !.guid = yahoo_guid, !.name = yahoo_name,
                     !.pc = IF \E i \in 1..Len(users) : users[i].yahoo_guid = yahoo_guid
                            THEN "update" ELSE "insert"]]
    /\ UNCHANGED <<ENCRYPTION_KEY, env, yahoo, threads, resolved, users, sessions,
                   kalshi_credentials, now, resp, stored, issued, api, wire>>

\* database.py:119-125  the row was found: UPDATE and COMMIT
RaceUpdate(p) ==
    LET r == get_or_create_user(users, Value(txn[p].guid), None, txn[p].name)
    IN  /\ txn[p].pc = "update"
        /\ users' = r.table
        /\ txn' = [txn EXCEPT ![p].pc = "done", ![p].result = r.result]
        /\ UNCHANGED <<ENCRYPTION_KEY, env, yahoo, threads, resolved, sessions,
                       kalshi_credentials, now, resp, stored, issued, api, wire>>

\* database.py:134-135  db.add(user); db.commit(): the flush sends the INSERT.
\* An IntegrityError leaves through get_db's except branch: db.rollback().
RaceInsert(p) ==
    LET check == GuidCheck(p, txn[p].guid)
        taken == {txn[q].pending.id : q \in {x \in Procs : txn[x].pending # None}}
        row == [id |-> FreshId(users, taken), yahoo_guid |-> txn[p].guid,
                yahoo_email |-> None, yahoo_name |-> txn[p].name]
    IN  /\ txn[p].pc = "insert"
        /\ check # "wait"
        /\ txn' = [txn EXCEPT ![p] =
                     IF check = "violation"
                     THEN [@ EXCEPT !.pc = "done", !.result = Raise("IntegrityError")]
                     ELSE [@ EXCEPT !.pc = "commit", !.pending = row]]
        /\ UNCHANGED <<ENCRYPTION_KEY, env, yahoo, threads, resolved, users, sessions,
                       kalshi_credentials, now, resp, stored, issued, api, wire>>

\* database.py:135  COMMIT: the inserted row becomes visible
RaceCommit(p) ==
    /\ txn[p].pc = "commit"
    /\ users' = Append(users, txn[p].pending)
    /\ txn' = [txn EXCEPT ![p].pc = "done", ![p].pending = None,
                          ![p].result = Value(txn[p].pending)]
    /\ UNCHANGED <<ENCRYPTION_KEY, env, yahoo, threads, resolved, sessions,
                   kalshi_credentials, now, resp, stored, issued, api, wire>>

\* the call has returned or raised; the request ends
RaceReturn(p) ==
    /\ txn[p].pc = "done"
    /\ txn' = [txn EXCEPT ![p] = IdleRace]
    /\ UNCHANGED <<ENCRYPTION_KEY, env, yahoo, threads, resolved, users, sessions,
                   kalshi_credentials, now, resp, stored, issued, api, wire>>

RaceInit ==
    /\ ENCRYPTION_KEY = "k1"
    /\ env = NoEnv
    /\ users = <<>>
    /\ sessions = <<>>
    /\ kalshi_credentials = <<>>
    /\ now = 0
    /\ resp = Idle
    /\ stored = NoStore
    /\ issued = NoIssue
    /\ resolved = NoResolve
    /\ txn = [p \in Procs |-> IdleRace]
    /\ api = None
    /\ wire = {}
    /\ yahoo = NoTokens
    /\ threads = <<>>

RaceNext ==
    \/ \E p \in Procs, yahoo_guid \in RaceGuids, yahoo_name \in RaceNames :
           RaceSelect(p, yahoo_guid, yahoo_name)
    \/ \E p \in Procs : RaceUpdate(p)
    \/ \E p \in Procs : RaceInsert(p)
    \/ \E p \in Procs : RaceCommit(p)
    \/ \E p \in Procs : RaceReturn(p)

SpecRace == RaceInit /\ [][RaceNext]_vars

RowsWith(yahoo_guid) == {i \in 1..Len(users) : users[i].yahoo_guid = yahoo_guid}

\* C27: under any interleaving of concurrent get_or_create_user calls for the
\* same subject id not yet in the table, every reachable state holds at most
\* one users row with that yahoo_guid.
C27_OneRowPerSubject == \A g \in RaceGuids : Cardinality(RowsWith(g)) <= 1

\* two calls for one subject id both found no row; one inserted it and the
\* unique index refused the other
C27_Witness ==
    \E p, q \in Procs :
        /\ p # q
        /\ txn[p].guid = txn[q].guid
        /\ txn[p].pc = "done" /\ txn[p].result = Raise("IntegrityError")
        /\ txn[q].pc = "done" /\ txn[q].result.kind = "value"
        /\ Cardinality(RowsWith(txn[p].guid)) = 1

-----------------------------------------------------------------------------
(* Sessions do not disturb each other                                       *)

\* this step is create_session drawing token t, or delete_session(t)
Concerns(t) ==
    \/ SessionRevoke(t)
    \/ \E u \in UserIds, days \in ExpiresDays : SessionCreate(u, days, t)

\* C28: create_session and delete_session change the validity of the token
\* concerned only: what get_user_by_session returns for any other token is
\* the same before and after, so an identity keeps its other sessions when
\* one of them is revoked.
C28_OtherTokensUntouched ==
    [][ \A t \in Tokens :
           Concerns(t) => \A other \in Tokens \ {t} :
                              ValidateNext(other) = Validate(other) ]_vars

\* a session row was revoked and the other token is still valid
C28_Witness ==
    /\ resp.op = "revoke" /\ resp.existed
    /\ \E other \in Tokens \ {resp.token} : Validate(other) # None

\* one identity holds two valid sessions
C28_TwoSessionsOneIdentity ==
    \E t1, t2 \in Tokens :
        /\ t1 # t2
        /\ Validate(t1) # None
        /\ Validate(t1) = Validate(t2)

-----------------------------------------------------------------------------
(* What link stores                                                         *)

\* C30: link_kalshi stores the submitted pair only after an authenticated
\* call made with it was answered with success; when a field is missing or
\* that call fails, it answers with an error and the credential table is as
\* it was, whether the identity had a pair or not.
C30_LinkStoresOnlyVerified ==
    [][\A header \in Bearers, cookie \in Cookies, data \in LinkBodies, status \in Statuses :
          ServerLink(header, cookie, data, status) =>
              /\ kalshi_credentials' # kalshi_credentials =>
                     /\ status = "200"
                     /\ Truthy(data.api_key) /\ Truthy(data.private_key)
                     /\ \E i \in 1..Len(resp'.sent) : resp'.sent[i].authenticated
              /\ (~Truthy(data.api_key) \/ ~Truthy(data.private_key) \/ status # "200")
                     => (resp'.status # "200" /\ kalshi_credentials' = kalshi_credentials)
              /\ resp'.status # "200" => kalshi_credentials' = kalshi_credentials]_vars

\* a link request with a valid session was refused while a pair is stored
C30_Witness ==
    /\ resp.op = "link"
    /\ resp.req.identity # None
    /\ resp.status = "400"
    /\ Len(kalshi_credentials) > 0

=============================================================================
